---- MODULE Spec2Model ----
(***************************************************************************)
(* arcin-infinitas-conf: the configuration codec (struct layout            *)
(* STRUCT_FMT_EX, parse_device, the packing half of save_to_device) and    *)
(* the device session protocol (load_from_device, save_to_device) of       *)
(* src/main.py.                                                            *)
(*                                                                         *)
(* Python values are modelled with their type where the code depends on    *)
(* it: a str is [t |-> "str", v |-> <<code points>>], a bytes object is    *)
(* [t |-> "bytes", v |-> <<0..255>>]; integers are integers.  The flags    *)
(* values drawn as inputs stay below 2^31, the largest integer the model   *)
(* checker represents; the 4 flag bytes are still packed and read one by   *)
(* one, little-endian.                                                     *)
(***************************************************************************)
EXTENDS Integers, Sequences, FiniteSets, TLC

(***************************************************************************)
(* Bounds of the model (not program constants).                            *)
(***************************************************************************)
\* longest label string handed to save_to_device
MaxLabelLen == 13
\* device buffers up to MaxExtra bytes longer than the 60-byte record
MaxExtra == 2
\* device buffers down to MaxShort bytes shorter than the 60-byte record
MaxShort == 2
\* most feature reports a device enumerates
MaxReports == 2

\* choices the user makes in the controls during one run
MaxEdits == 1

\* the largest effector id, palette index and multiplicity given to the
\* conversions
MaxRemapId == 4

MaxPaletteInput == 31

MaxMultiplicityInput == 7
\* values the debounce spin control is given: 0..MaxDebounceInput
MaxDebounceInput == 12

(***************************************************************************)
(* Program constants.                                                      *)
(***************************************************************************)
ARCIN_CONFIG_VALID_KEYCODES == 13
\* native "L" (unsigned long) on the Windows ABI pywinusb runs on
NativeLongSize == 4
\* feature[0] = 0xc0, report.report_id == 0xc0
CONFIG_REPORT_ID == 192
\* feature[2] = 0x3C
CONFIG_REPORT_SIZE == 60
\* feature = [0x00] * 64
FEATURE_REPORT_LEN == 64
\* feature = [0xb0, 0x20]
COMMAND_REPORT_ID == 176
COMMAND_RESTART == 32

(***************************************************************************)
(* Small helpers on byte sequences.                                        *)
(***************************************************************************)
Zeros(n) == [i \in 1..n |-> 0]

Min(a, b) == IF a < b THEN a ELSE b

\* Python slice s[0:n]
Slice(s, n) == SubSeq(s, 1, Min(n, Len(s)))

Str(s) == [t |-> "str", v |-> s]

Bytes(s) == [t |-> "bytes", v |-> s]

\* str.encode(): UTF-8 of a sequence of code points below 0x800
RECURSIVE Utf8(_)
Utf8(cps) ==
    IF cps = <<>> THEN <<>>
    ELSE LET c == Head(cps)
         IN (IF c < 128 THEN <<c>>
             ELSE <<192 + (c \div 64), 128 + (c % 64)>>) \o Utf8(Tail(cps))

(***************************************************************************)
(* STRUCT_FMT_EX, one entry per format token: 's' takes a length, 'x' a    *)
(* count of pad bytes, the others stand for one value each.                *)
(***************************************************************************)
Tok(c, n) == [c |-> c, n |-> n]

STRUCT_FMT_EX ==
    << Tok("s", 12),   \* uint8 label[12]
       Tok("L", 1),    \* uint32 flags
       Tok("b", 1),    \* int8 qe1_sens
       Tok("b", 1),    \* int8 qe2_sens
       Tok("x", 1),    \* reserved (was: effector_mode)
       Tok("B", 1),    \* debounce_ticks
       Tok("s", 16),   \* char keycodes[16]
       Tok("B", 1),    \* remap_start_sel
       Tok("B", 1),    \* remap_b8_b9
       Tok("x", 2),    \* reserved[2]
       Tok("B", 1),    \* rgb_flags
       Tok("B", 1), Tok("B", 1), Tok("B", 1),   \* primary
       Tok("B", 1),    \* rgb_darkness
       Tok("B", 1), Tok("B", 1), Tok("B", 1),   \* secondary
       Tok("B", 1), Tok("B", 1), Tok("B", 1),   \* tertiary
       Tok("B", 1),    \* rgb_mode
       Tok("B", 1),    \* rgb_num_leds
       Tok("B", 1),    \* rgb_idle_speed
       Tok("B", 1),    \* rgb_idle_brightness
       Tok("b", 1),    \* rgb_tt_speed
       Tok("B", 1),    \* rgb_mode_options
       Tok("x", 3) >>  \* reserved[3]

\* the field names of the ArcinConfig namedtuple, in order
ArcinConfigFields ==
    << "label", "flags", "qe1_sens", "qe2_sens",
       "debounce_ticks", "keycodes",
       "remap_start_sel", "remap_b8_b9",
       "rgb_flags",
       "rgb_red", "rgb_green", "rgb_blue",
       "rgb_darkness",
       "rgb_red_2", "rgb_green_2", "rgb_blue_2",
       "rgb_red_3", "rgb_green_3", "rgb_blue_3",
       "rgb_mode", "rgb_num_leds", "rgb_idle_speed",
       "rgb_idle_brightness", "rgb_tt_speed", "rgb_mode_options" >>

(***************************************************************************)
(* The struct module in native mode ("@", no prefix in STRUCT_FMT_EX):     *)
(* native sizes, and each item aligned to its native alignment.            *)
(***************************************************************************)
TokSize(tok) ==
    IF tok.c = "L" THEN NativeLongSize
    ELSE IF tok.c \in {"s", "x"} THEN tok.n
    ELSE 1

\* the alignment of an 8-byte unsigned long
TokAlignLP64(tok) == IF tok.c = "L" THEN 8 ELSE 1

TokAlign(tok) == IF tok.c = "L" THEN NativeLongSize ELSE 1

\* pad bytes needed in front of an item of alignment a at offset off
AlignPad(off, a) == (a - (off % a)) % a

RECURSIVE CalcFrom(_, _, _)
CalcFrom(fmt, k, off) ==
    IF k > Len(fmt) THEN off
    ELSE CalcFrom(fmt, k + 1,
                  off + AlignPad(off, TokAlign(fmt[k])) + TokSize(fmt[k]))

\* struct.calcsize(fmt)
calcsize(fmt) == CalcFrom(fmt, 1, 0)

\* little-endian bytes of an unsigned integer
RECURSIVE LeBytes(_, _)
LeBytes(x, n) == IF n = 0 THEN <<>> ELSE <<x % 256>> \o LeBytes(x \div 256, n - 1)

RECURSIVE LeValue(_)
LeValue(bs) == IF bs = <<>> THEN 0 ELSE Head(bs) + 256 * LeValue(Tail(bs))

\* x shifted right by n bytes
RECURSIVE ShiftBytes(_, _)
ShiftBytes(x, n) == IF n = 0 THEN x ELSE ShiftBytes(x \div 256, n - 1)

\* integers taken modulo 256 instead of range-checked
TokAcceptsWrapping(tok, x) ==
    CASE tok.c = "s" -> x.t = "bytes"
      [] tok.c = "b" -> TRUE
      [] tok.c = "B" -> TRUE
      [] tok.c = "L" -> x >= 0 /\ ShiftBytes(x, NativeLongSize) = 0
      [] OTHER -> FALSE

\* does value x fit the item? ('s' needs a bytes object)
TokAccepts(tok, x) ==
    CASE tok.c = "s" -> x.t = "bytes"
      [] tok.c = "b" -> x \in -128..127
      [] tok.c = "B" -> x \in 0..255
      [] tok.c = "L" -> x >= 0 /\ ShiftBytes(x, NativeLongSize) = 0
      [] OTHER -> FALSE

\* 's' that pads but never cuts
TokBytesNoTruncate(tok, x) ==
    CASE tok.c = "s" -> x.v \o Zeros(tok.n - Min(tok.n, Len(x.v)))
      [] tok.c = "b" -> <<x % 256>>
      [] tok.c = "B" -> <<x>>
      [] tok.c = "L" -> LeBytes(x, NativeLongSize)
      [] OTHER -> <<>>

\* the bytes of one value: 's' truncates or pads with null bytes to fit
TokBytes(tok, x) ==
    CASE tok.c = "s" -> Slice(x.v, tok.n) \o Zeros(tok.n - Min(tok.n, Len(x.v)))
      [] tok.c = "b" -> <<x % 256>>
      [] tok.c = "B" -> <<x>>
      [] tok.c = "L" -> LeBytes(x, NativeLongSize)
      [] OTHER -> <<>>

PackFail == [ok |-> FALSE, bytes |-> <<>>]

RECURSIVE PackFrom(_, _, _, _, _)
PackFrom(fmt, args, k, a, out) ==
    IF k > Len(fmt)
    THEN IF a = Len(args) + 1 THEN [ok |-> TRUE, bytes |-> out] ELSE PackFail
    ELSE LET tok == fmt[k]
             pad == Zeros(AlignPad(Len(out), TokAlign(tok)))
         IN IF tok.c = "x"
            THEN PackFrom(fmt, args, k + 1, a, out \o pad \o Zeros(tok.n))
            ELSE IF a > Len(args) THEN PackFail
            ELSE IF ~TokAccepts(tok, args[a]) THEN PackFail
            ELSE PackFrom(fmt, args, k + 1, a + 1,
                          out \o pad \o TokBytes(tok, args[a]))

\* struct.pack(fmt, *args): ok = FALSE stands for struct.error
pack(fmt, args) == PackFrom(fmt, args, 1, 1, <<>>)

\* 'b' read back as if it were 'B'
TokValueUnsigned(tok, bs) ==
    CASE tok.c = "s" -> Bytes(bs)
      [] tok.c = "b" -> bs[1]
      [] tok.c = "B" -> bs[1]
      [] tok.c = "L" -> LeValue(bs)
      [] OTHER -> 0

\* the value of one item read back from its bytes
TokValue(tok, bs) ==
    CASE tok.c = "s" -> Bytes(bs)
      [] tok.c = "b" -> IF bs[1] >= 128 THEN bs[1] - 256 ELSE bs[1]
      [] tok.c = "B" -> bs[1]
      [] tok.c = "L" -> LeValue(bs)
      [] OTHER -> 0

RECURSIVE UnpackFrom(_, _, _, _, _)
UnpackFrom(fmt, data, k, off, out) ==
    IF k > Len(fmt) THEN out
    ELSE LET tok == fmt[k]
             at  == off + AlignPad(off, TokAlign(tok))
             nxt == at + TokSize(tok)
         IN IF tok.c = "x"
            THEN UnpackFrom(fmt, data, k + 1, nxt, out)
            ELSE UnpackFrom(fmt, data, k + 1, nxt,
                            Append(out, TokValue(tok, SubSeq(data, at + 1, nxt))))

UnpackFail == [ok |-> FALSE, values |-> <<>>]

\* struct.unpack(fmt, buffer): the buffer must have exactly calcsize bytes
unpack(fmt, data) ==
    IF Len(data) # calcsize(fmt) THEN UnpackFail
    ELSE [ok |-> TRUE, values |-> UnpackFrom(fmt, data, 1, 0, <<>>)]


(***************************************************************************)
(* parse_device and the packing half of save_to_device.                    *)
(***************************************************************************)
None == <<>>

Some(x) == <<x>>

\* ArcinConfig._make(values)
MakeArcinConfig(values) ==
    [f \in {ArcinConfigFields[i] : i \in 1..Len(ArcinConfigFields)} |->
        values[CHOOSE i \in 1..Len(ArcinConfigFields) : ArcinConfigFields[i] = f]]

\* parse_device without data[0:expected_size]
parse_device_untruncated(data) ==
    LET unpacked == unpack(STRUCT_FMT_EX, data)
    IN IF unpacked.ok /\ Len(unpacked.values) = Len(ArcinConfigFields)
       THEN Some(MakeArcinConfig(unpacked.values))
       ELSE None

\* parse_device(report) on the value of the report's config usage:
\* None stands for the struct.error raised by unpack
parse_device(data) ==
    LET expected_size == calcsize(STRUCT_FMT_EX)
        truncated     == Slice(data, expected_size)
        unpacked      == unpack(STRUCT_FMT_EX, truncated)
    IN IF unpacked.ok /\ Len(unpacked.values) = Len(ArcinConfigFields)
       THEN Some(MakeArcinConfig(unpacked.values))
       ELSE None

\* the arguments save_to_device hands to struct.pack, in order
PackArgs(conf) ==
    << Bytes(Utf8(Slice(conf.label.v, 12))),
       conf.flags,
       conf.qe1_sens,
       conf.qe2_sens,
       conf.debounce_ticks,
       [t |-> conf.keycodes.t, v |-> Slice(conf.keycodes.v, 16)],
       conf.remap_start_sel,
       conf.remap_b8_b9,
       conf.rgb_flags,
       conf.rgb_red,
       conf.rgb_green,
       conf.rgb_blue,
       conf.rgb_darkness,
       conf.rgb_red_2,
       conf.rgb_green_2,
       conf.rgb_blue_2,
       conf.rgb_red_3,
       conf.rgb_green_3,
       conf.rgb_blue_3,
       conf.rgb_mode,
       conf.rgb_num_leds,
       conf.rgb_idle_speed,
       conf.rgb_idle_brightness,
       conf.rgb_tt_speed,
       conf.rgb_mode_options >>

\* the first try block of save_to_device: only a str has .encode(), any
\* exception (AttributeError, struct.error) is the format error
PackConf(conf) ==
    IF conf.label.t # "str" THEN PackFail
    ELSE pack(STRUCT_FMT_EX, PackArgs(conf))

\* the payload written at feature[3:], over the padding byte
BuildFeatureNoPadding(packed) ==
    LET blank  == Zeros(FEATURE_REPORT_LEN)
        header == <<CONFIG_REPORT_ID, 0, CONFIG_REPORT_SIZE>>
        stop   == Min(3 + Len(packed), FEATURE_REPORT_LEN)
    IN header \o packed \o SubSeq(blank, stop + 1, FEATURE_REPORT_LEN)

\* feature = [0x00] * 64 with the header and feature[4:4+len(packed)] = packed
BuildFeature(packed) ==
    LET blank  == Zeros(FEATURE_REPORT_LEN)
        header == <<CONFIG_REPORT_ID, 0, CONFIG_REPORT_SIZE, 0>>
        stop   == Min(4 + Len(packed), FEATURE_REPORT_LEN)
    IN header \o packed \o SubSeq(blank, stop + 1, FEATURE_REPORT_LEN)

\* feature = [0xb0, 0x20]
RestartFeature == <<COMMAND_REPORT_ID, COMMAND_RESTART>>


(***************************************************************************)
(* Inputs: the records handed to save_to_device and the buffers a device   *)
(* returns for its config usage.                                           *)
(***************************************************************************)
\* "TEST"
LabelTest == <<84, 69, 83, 84>>

\* 'A', 'B', ... of length n
AsciiLabel(n) == [i \in 1..n |-> 64 + i]

\* n times U+00E9, two bytes each in UTF-8
WideLabel(n) == [i \in 1..n |-> 233]

LabelLens == {0, 1, 11, 12} \cup (13..MaxLabelLen)

Labels ==
    {Str(LabelTest)}
    \cup {Str(AsciiLabel(n)) : n \in LabelLens}
    \cup {Str(WideLabel(n)) : n \in {1, 6, 7, 12}}

\* label "TEST", no flags, debounce 2, the default remap and RGB values of
\* __extract_conf_from_gui__
DefaultConf ==
    [label |-> Str(LabelTest), flags |-> 0, qe1_sens |-> 0, qe2_sens |-> 0,
     debounce_ticks |-> 2,
     keycodes |-> Bytes(Zeros(ARCIN_CONFIG_VALID_KEYCODES)),
     remap_start_sel |-> 18, remap_b8_b9 |-> 52,
     rgb_flags |-> 0,
     rgb_red |-> 0, rgb_green |-> 0, rgb_blue |-> 0,
     rgb_darkness |-> 0,
     rgb_red_2 |-> 0, rgb_green_2 |-> 0, rgb_blue_2 |-> 0,
     rgb_red_3 |-> 0, rgb_green_3 |-> 0, rgb_blue_3 |-> 0,
     rgb_mode |-> 0, rgb_num_leds |-> 12, rgb_idle_speed |-> 0,
     rgb_idle_brightness |-> 0, rgb_tt_speed |-> 0, rgb_mode_options |-> 0]

\* a record with a different value in every field
BusyConf ==
    [label |-> Str(AsciiLabel(12)), flags |-> 16909060, qe1_sens |-> -16,
     qe2_sens |-> 16, debounce_ticks |-> 10,
     keycodes |-> Bytes([i \in 1..ARCIN_CONFIG_VALID_KEYCODES |-> 3 + i]),
     remap_start_sel |-> 67, remap_b8_b9 |-> 33,
     rgb_flags |-> 31,
     rgb_red |-> 201, rgb_green |-> 202, rgb_blue |-> 203,
     rgb_darkness |-> 204,
     rgb_red_2 |-> 205, rgb_green_2 |-> 206, rgb_blue_2 |-> 207,
     rgb_red_3 |-> 208, rgb_green_3 |-> 209, rgb_blue_3 |-> 210,
     rgb_mode |-> 7, rgb_num_leds |-> 180, rgb_idle_speed |-> 240,
     rgb_idle_brightness |-> 255, rgb_tt_speed |-> -100,
     rgb_mode_options |-> 229]

KeycodeInputs ==
    {Bytes([i \in 1..n |-> 3 + i]) : n \in {13, 16, 17}}

ConfInputs ==
    {DefaultConf, BusyConf}
    \cup {[DefaultConf EXCEPT !.label = l] : l \in Labels}
    \cup {[DefaultConf EXCEPT !.label = Bytes(LabelTest \o Zeros(8))]}
    \cup {[DefaultConf EXCEPT !.flags = f] : f \in {-1, 16379, 2147483647}}
    \cup {[DefaultConf EXCEPT !.qe1_sens = q] : q \in {-129, -128, -4, 127, 128}}
    \cup {[DefaultConf EXCEPT !.rgb_tt_speed = q] : q \in {-128, 100, 200}}
    \cup {[DefaultConf EXCEPT !.debounce_ticks = d] : d \in {-1, 255, 256}}
    \cup {[DefaultConf EXCEPT !.keycodes = k] : k \in KeycodeInputs}

\* the fields are within their declared ranges
ValidConf(conf) ==
    /\ conf.label.t = "str"
    /\ Len(Utf8(conf.label.v)) <= 12
    /\ conf.flags >= 0
    /\ conf.keycodes.t = "bytes"
    /\ Len(conf.keycodes.v) = ARCIN_CONFIG_VALID_KEYCODES
    /\ \A i \in 1..Len(conf.keycodes.v) : conf.keycodes.v[i] \in 0..255
    /\ \A f \in {"qe1_sens", "qe2_sens", "rgb_tt_speed"} : conf[f] \in -128..127
    /\ \A f \in {"debounce_ticks", "remap_start_sel", "remap_b8_b9",
                 "rgb_flags", "rgb_red", "rgb_green", "rgb_blue",
                 "rgb_darkness", "rgb_red_2", "rgb_green_2", "rgb_blue_2",
                 "rgb_red_3", "rgb_green_3", "rgb_blue_3", "rgb_mode",
                 "rgb_num_leds", "rgb_idle_speed", "rgb_idle_brightness",
                 "rgb_mode_options"} : conf[f] \in 0..255

\* 60-byte records a device may hold: what earlier saves wrote, and
\* buffers with every byte set (reserved bytes included)
Fill(b) == [i \in 1..CONFIG_REPORT_SIZE |-> IF i = 16 THEN b % 128 ELSE b]

BasePayloads ==
    {PackConf(c).bytes : c \in {DefaultConf, BusyConf}}
    \cup {Fill(0), Fill(255), Fill(129)}

PayloadLens ==
    {0} \cup ((CONFIG_REPORT_SIZE - MaxShort)..(CONFIG_REPORT_SIZE + MaxExtra))

\* the value of the config usage as the device returns it
DevicePayloads ==
    {Slice(p \o [i \in 1..MaxExtra |-> 237 + i], n) :
        p \in BasePayloads, n \in PayloadLens}


(***************************************************************************)
(* Python's integer operators on the non-negative values the window code   *)
(* applies them to.                                                        *)
(***************************************************************************)
RECURSIVE BitAnd(_, _)
BitAnd(a, b) ==
    IF a = 0 \/ b = 0 THEN 0
    ELSE (a % 2) * (b % 2) + 2 * BitAnd(a \div 2, b \div 2)

RECURSIVE BitOr(_, _)
BitOr(a, b) ==
    IF a = 0 THEN b
    ELSE IF b = 0 THEN a
    ELSE (IF a % 2 = 1 \/ b % 2 = 1 THEN 1 ELSE 0)
            + 2 * BitOr(a \div 2, b \div 2)

\* a << k
Shl(a, k) == a * 2^k

\* a >> k
Shr(a, k) == a \div 2^k

(***************************************************************************)
(* Configuration flags, lines 228-242.  (1 << 2) is commented out there.   *)
(***************************************************************************)
ARCIN_CONFIG_FLAG_SEL_MULTI_TAP == Shl(1, 0)

ARCIN_CONFIG_FLAG_INVERT_QE1 == Shl(1, 1)

ARCIN_CONFIG_FLAG_DIGITAL_TT_ENABLE == Shl(1, 3)

ARCIN_CONFIG_FLAG_DEBOUNCE == Shl(1, 4)

ARCIN_CONFIG_FLAG_250HZ_MODE == Shl(1, 5)

ARCIN_CONFIG_FLAG_ANALOG_TT_FORCE_ENABLE == Shl(1, 6)

ARCIN_CONFIG_FLAG_KEYBOARD_ENABLE == Shl(1, 7)

ARCIN_CONFIG_FLAG_JOYINPUT_DISABLE == Shl(1, 8)

ARCIN_CONFIG_FLAG_MODE_SWITCHING_ENABLE == Shl(1, 9)

ARCIN_CONFIG_FLAG_LED_OFF == Shl(1, 10)

ARCIN_CONFIG_FLAG_TT_LED_REACTIVE == Shl(1, 11)

ARCIN_CONFIG_FLAG_TT_LED_HID == Shl(1, 12)

ARCIN_CONFIG_FLAG_WS2812B == Shl(1, 13)

\* "flags & FLAG" as a Python condition
Has(flags, flag) == BitAnd(flags, flag) # 0

(***************************************************************************)
(* The controls of the main window.  A wx.Choice / wx.RadioBox / read-only *)
(* wx.ComboBox is its selection index (-1: nothing selected), a check box  *)
(* a BOOLEAN, the spin control its value, the text control its code points.*)
(***************************************************************************)
\* lines 420-468 and __create_checklist__: the controls as constructed
DefaultCtl ==
    [title |-> <<>>,
     multitap |-> FALSE, qe1_invert |-> FALSE, debounce_check |-> FALSE,
     mode_switch |-> FALSE, led_off |-> FALSE, ws2812b |-> FALSE,
     poll_rate |-> 0, qe1_tt |-> 0, input_mode |-> 0, led_mode |-> 0,
     debounce |-> 2, qe1_sens |-> 0]

\* the digital-only test made first
TtSelectionDigitalFirst(flags) ==
    IF Has(flags, ARCIN_CONFIG_FLAG_DIGITAL_TT_ENABLE) THEN 1
    ELSE IF Has(flags, ARCIN_CONFIG_FLAG_DIGITAL_TT_ENABLE)
            /\ Has(flags, ARCIN_CONFIG_FLAG_ANALOG_TT_FORCE_ENABLE) THEN 2
    ELSE 0

\* lines 832-838: the turntable mode chosen for a flags value
TtSelection(flags) ==
    IF Has(flags, ARCIN_CONFIG_FLAG_DIGITAL_TT_ENABLE)
       /\ Has(flags, ARCIN_CONFIG_FLAG_ANALOG_TT_FORCE_ENABLE) THEN 2
    ELSE IF Has(flags, ARCIN_CONFIG_FLAG_DIGITAL_TT_ENABLE) THEN 1
    ELSE 0

\* items 1 and 2 of the input mode exchanged
InputSelectionSwapped(flags) ==
    IF Has(flags, ARCIN_CONFIG_FLAG_KEYBOARD_ENABLE)
       /\ Has(flags, ARCIN_CONFIG_FLAG_JOYINPUT_DISABLE) THEN 2
    ELSE IF Has(flags, ARCIN_CONFIG_FLAG_KEYBOARD_ENABLE) THEN 1
    ELSE 0

\* lines 840-846: the input mode chosen for a flags value
InputSelection(flags) ==
    IF Has(flags, ARCIN_CONFIG_FLAG_KEYBOARD_ENABLE)
       /\ Has(flags, ARCIN_CONFIG_FLAG_JOYINPUT_DISABLE) THEN 1
    ELSE IF Has(flags, ARCIN_CONFIG_FLAG_KEYBOARD_ENABLE) THEN 2
    ELSE 0

\* lines 848-853: the turntable LED mode chosen for a flags value
LedSelection(flags) ==
    IF Has(flags, ARCIN_CONFIG_FLAG_TT_LED_REACTIVE) THEN 1
    ELSE IF Has(flags, ARCIN_CONFIG_FLAG_TT_LED_HID) THEN 2
    ELSE 0

\* lines 809-853 of __populate_from_conf__: the flag controls
PopulateFlags(c, flags) ==
    [c EXCEPT
        !.multitap = Has(flags, ARCIN_CONFIG_FLAG_SEL_MULTI_TAP),
        !.qe1_invert = Has(flags, ARCIN_CONFIG_FLAG_INVERT_QE1),
        !.debounce_check = Has(flags, ARCIN_CONFIG_FLAG_DEBOUNCE),
        !.mode_switch = Has(flags, ARCIN_CONFIG_FLAG_MODE_SWITCHING_ENABLE),
        !.led_off = Has(flags, ARCIN_CONFIG_FLAG_LED_OFF),
        !.ws2812b = Has(flags, ARCIN_CONFIG_FLAG_WS2812B),
        !.poll_rate = IF Has(flags, ARCIN_CONFIG_FLAG_250HZ_MODE) THEN 1 ELSE 0,
        !.qe1_tt = TtSelection(flags),
        !.input_mode = InputSelection(flags),
        !.led_mode = LedSelection(flags)]

\* "flags |= FLAG" under a condition
OrIf(flags, cond, flag) == IF cond THEN BitOr(flags, flag) ELSE flags

\* the mode switch check box sets the retired bit
ExtractFlagsRetiredBit(c) ==
    LET f1 == OrIf(0, c.multitap, ARCIN_CONFIG_FLAG_SEL_MULTI_TAP)
        f2 == OrIf(f1, c.qe1_invert, ARCIN_CONFIG_FLAG_INVERT_QE1)
        f3 == OrIf(f2, c.debounce_check, ARCIN_CONFIG_FLAG_DEBOUNCE)
        f4 == OrIf(f3, c.mode_switch, Shl(1, 2))
        f5 == OrIf(f4, c.led_off, ARCIN_CONFIG_FLAG_LED_OFF)
        f6 == OrIf(f5, c.ws2812b, ARCIN_CONFIG_FLAG_WS2812B)
        f7 == OrIf(f6, c.poll_rate = 1, ARCIN_CONFIG_FLAG_250HZ_MODE)
        f8 == OrIf(f7, c.qe1_tt \in {1, 2}, ARCIN_CONFIG_FLAG_DIGITAL_TT_ENABLE)
        f9 == OrIf(f8, c.qe1_tt = 2, ARCIN_CONFIG_FLAG_ANALOG_TT_FORCE_ENABLE)
        f10 == OrIf(f9, c.input_mode \in {1, 2}, ARCIN_CONFIG_FLAG_KEYBOARD_ENABLE)
        f11 == OrIf(f10, c.input_mode = 1, ARCIN_CONFIG_FLAG_JOYINPUT_DISABLE)
        f12 == OrIf(f11, c.led_mode = 1, ARCIN_CONFIG_FLAG_TT_LED_REACTIVE)
    IN OrIf(f12, c.led_mode = 2, ARCIN_CONFIG_FLAG_TT_LED_HID)

\* item 2 of the turntable mode sets the analog-force bit alone
ExtractFlagsForceAlone(c) ==
    LET f1 == OrIf(0, c.multitap, ARCIN_CONFIG_FLAG_SEL_MULTI_TAP)
        f2 == OrIf(f1, c.qe1_invert, ARCIN_CONFIG_FLAG_INVERT_QE1)
        f3 == OrIf(f2, c.debounce_check, ARCIN_CONFIG_FLAG_DEBOUNCE)
        f4 == OrIf(f3, c.mode_switch, ARCIN_CONFIG_FLAG_MODE_SWITCHING_ENABLE)
        f5 == OrIf(f4, c.led_off, ARCIN_CONFIG_FLAG_LED_OFF)
        f6 == OrIf(f5, c.ws2812b, ARCIN_CONFIG_FLAG_WS2812B)
        f7 == OrIf(f6, c.poll_rate = 1, ARCIN_CONFIG_FLAG_250HZ_MODE)
        f8 == OrIf(f7, c.qe1_tt = 1, ARCIN_CONFIG_FLAG_DIGITAL_TT_ENABLE)
        f9 == OrIf(f8, c.qe1_tt = 2, ARCIN_CONFIG_FLAG_ANALOG_TT_FORCE_ENABLE)
        f10 == OrIf(f9, c.input_mode \in {1, 2}, ARCIN_CONFIG_FLAG_KEYBOARD_ENABLE)
        f11 == OrIf(f10, c.input_mode = 1, ARCIN_CONFIG_FLAG_JOYINPUT_DISABLE)
        f12 == OrIf(f11, c.led_mode = 1, ARCIN_CONFIG_FLAG_TT_LED_REACTIVE)
    IN OrIf(f12, c.led_mode = 2, ARCIN_CONFIG_FLAG_TT_LED_HID)

\* lines 697-731 of __extract_conf_from_gui__: flags from the controls
ExtractFlags(c) ==
    LET f1 == OrIf(0, c.multitap, ARCIN_CONFIG_FLAG_SEL_MULTI_TAP)
        f2 == OrIf(f1, c.qe1_invert, ARCIN_CONFIG_FLAG_INVERT_QE1)
        f3 == OrIf(f2, c.debounce_check, ARCIN_CONFIG_FLAG_DEBOUNCE)
        f4 == OrIf(f3, c.mode_switch, ARCIN_CONFIG_FLAG_MODE_SWITCHING_ENABLE)
        f5 == OrIf(f4, c.led_off, ARCIN_CONFIG_FLAG_LED_OFF)
        f6 == OrIf(f5, c.ws2812b, ARCIN_CONFIG_FLAG_WS2812B)
        f7 == OrIf(f6, c.poll_rate = 1, ARCIN_CONFIG_FLAG_250HZ_MODE)
        f8 == OrIf(f7, c.qe1_tt \in {1, 2}, ARCIN_CONFIG_FLAG_DIGITAL_TT_ENABLE)
        f9 == OrIf(f8, c.qe1_tt = 2, ARCIN_CONFIG_FLAG_ANALOG_TT_FORCE_ENABLE)
        f10 == OrIf(f9, c.input_mode \in {1, 2}, ARCIN_CONFIG_FLAG_KEYBOARD_ENABLE)
        f11 == OrIf(f10, c.input_mode = 1, ARCIN_CONFIG_FLAG_JOYINPUT_DISABLE)
        f12 == OrIf(f11, c.led_mode = 1, ARCIN_CONFIG_FLAG_TT_LED_REACTIVE)
    IN OrIf(f12, c.led_mode = 2, ARCIN_CONFIG_FLAG_TT_LED_HID)

(***************************************************************************)
(* SENS_OPTIONS, lines 76-92: the values in the order of the dict, which   *)
(* is the order of the items of qe1_sens_ctrl.                             *)
(***************************************************************************)
SENS_OPTIONS == <<0, -2, -3, -4, -6, -8, -11, -16, 2, 3, 4, 6, 8, 11, 16>>

\* line 857: index = -4
UnmatchedSensIndex == -4

\* lines 857-861: the index handed to qe1_sens_ctrl.Select()
SensIndex(v) ==
    IF \E i \in 1..Len(SENS_OPTIONS) : SENS_OPTIONS[i] = v
    THEN (CHOOSE i \in 1..Len(SENS_OPTIONS) :
            /\ SENS_OPTIONS[i] = v
            /\ \A j \in 1..(i - 1) : SENS_OPTIONS[j] # v) - 1
    ELSE UnmatchedSensIndex

\* lines 738-741: GetValue() is the text of the selected item, the empty
\* string when nothing is selected
ExtractSens(c) ==
    IF c.qe1_sens \in 0..(Len(SENS_OPTIONS) - 1)
    THEN SENS_OPTIONS[c.qe1_sens + 1]
    ELSE -4

\* a value outside 2..10 brought to the nearest bound
ExtractDebounceClamped(c) ==
    IF c.debounce < 2 THEN 2 ELSE IF c.debounce > 10 THEN 10 ELSE c.debounce

\* lines 733-736
ExtractDebounce(c) ==
    IF 2 <= c.debounce /\ c.debounce <= 10 THEN c.debounce ELSE 2

(***************************************************************************)
(* Effector remapping.                                                     *)
(***************************************************************************)
\* lines 101-106
DEFAULT_EFFECTOR_MAPPING == <<1, 2, 3, 4>>

\* lines 748-749: (high << 4) | low
RemapPack(high, low) == BitOr(Shl(high, 4), low)

\* lines 868-871: the two nibbles of both bytes, as stored in self.remap
RemapNibbles(start_sel, b8_b9) ==
    << BitAnd(Shr(start_sel, 4), 15), BitAnd(start_sel, 15),
       BitAnd(Shr(b8_b9, 4), 15), BitAnd(b8_b9, 15) >>


\* lines 1173-1175 of populate_ui_from_remap: a 0 in the list r becomes the
\* entry of the list d at that place
ZeroToDefault(r, d) == [i \in 1..Len(r) |-> IF r[i] = 0 THEN d[i] ELSE r[i]]

\* a loop that leaves the list as it is
NoDefaultsForZero(r) == r

\* lines 1173-1175 with DEFAULT_EFFECTOR_MAPPING as it is written in lines
\* 101-106
DefaultsForZero(r) == ZeroToDefault(r, DEFAULT_EFFECTOR_MAPPING)

(***************************************************************************)
(* mode_options of the RGB window.                                         *)
(***************************************************************************)
\* the multiplicity shifted by 4
PackModeOptionsShift4(palette, multiplicity) ==
    BitOr(BitAnd(palette, 31), Shl(multiplicity, 4))

\* lines 1427-1428 of extract_from_ui
PackModeOptions(palette, multiplicity) ==
    BitOr(BitAnd(palette, 31), Shl(multiplicity, 5))

\* line 1387 of populate_ui
UnpackPalette(mode_options) == BitAnd(mode_options, 31)

\* line 1388 of populate_ui
UnpackMultiplicity(mode_options) == BitAnd(Shr(mode_options, 5), 7)

(***************************************************************************)
(* The flags of the RGB window, lines 244-252, and the four controls that  *)
(* show them: three check boxes and the fade-out choice (4 items).         *)
(***************************************************************************)
ARCIN_RGB_FLAG_ENABLE_HID == Shl(1, 0)

ARCIN_RGB_FLAG_REACT_TO_TT == Shl(1, 1)

ARCIN_RGB_FLAG_FLIP_DIRECTION == Shl(1, 2)

ARCIN_RGB_FLAG_FADE_OUT_FAST == Shl(1, 3)

ARCIN_RGB_FLAG_FADE_OUT_SLOW == Shl(1, 4)

\* the weights of the two bits exchanged
FadeoutSelectionSwapped(flags) ==
    LET v1 == OrIf(0, Has(flags, ARCIN_RGB_FLAG_FADE_OUT_FAST), 2)
    IN OrIf(v1, Has(flags, ARCIN_RGB_FLAG_FADE_OUT_SLOW), 1)

\* lines 1395-1400 of populate_ui: the item selected in fadeout_ctrl
FadeoutSelection(flags) ==
    LET v1 == OrIf(0, Has(flags, ARCIN_RGB_FLAG_FADE_OUT_FAST), 1)
    IN OrIf(v1, Has(flags, ARCIN_RGB_FLAG_FADE_OUT_SLOW), 2)

\* lines 1378-1380 and 1395-1400 of populate_ui: the flag controls
RgbPopulateFlags(flags) ==
    [hid_rgb |-> Has(flags, ARCIN_RGB_FLAG_ENABLE_HID),
     qe1_react |-> Has(flags, ARCIN_RGB_FLAG_REACT_TO_TT),
     flip_direction |-> Has(flags, ARCIN_RGB_FLAG_FLIP_DIRECTION),
     fadeout |-> FadeoutSelection(flags)]

\* lines 1407-1419 of extract_from_ui: flags from the flag controls w
RgbExtractFlags(w) ==
    LET f1 == OrIf(0, w.hid_rgb, ARCIN_RGB_FLAG_ENABLE_HID)
        f2 == OrIf(f1, w.qe1_react, ARCIN_RGB_FLAG_REACT_TO_TT)
        f3 == OrIf(f2, w.flip_direction, ARCIN_RGB_FLAG_FLIP_DIRECTION)
        f4 == OrIf(f3, BitAnd(w.fadeout, 2) # 0, ARCIN_RGB_FLAG_FADE_OUT_SLOW)
    IN OrIf(f4, BitAnd(w.fadeout, 1) # 0, ARCIN_RGB_FLAG_FADE_OUT_FAST)

(***************************************************************************)
(* The idle speed label of the RGB window.  The quotient of the float      *)
(* division is kept as the fraction <<numerator, denominator>>; the text   *)
(* of a float formatted with .2f is the number of hundredths it shows.     *)
(***************************************************************************)
\* line 1289: wx.Slider(minValue=0, maxValue=240)
IdleSpeedSliderMax == 240

\* the digits after the second decimal dropped
FormatTruncated(x) == (100 * x[1]) \div x[2]

\* f"{x:.2f}": the hundredths nearest to x, the even one of two equally near
FormatTwoDecimals(x) ==
    LET q == (100 * x[1]) \div x[2]
        r == (100 * x[1]) % x[2]
    IN IF 2 * r < x[2] THEN q
       ELSE IF 2 * r > x[2] THEN q + 1
       ELSE IF q % 2 = 0 THEN q ELSE q + 1

\* lines 1556-1561: converted, for the slider value raw
IdleSpeedConverted(raw, unit) ==
    IF unit = "RPM" THEN <<raw, 2>>
    ELSE IF unit = "BPM" THEN <<raw * raw, 255>>
    ELSE <<raw, 1>>

\* lines 1549-1563: the label set by __evaluate_idle_speed__
EvaluateIdleSpeed(raw, unit) ==
    IF unit = "" THEN [text |-> "", hundredths |-> 0, unit |-> ""]
    ELSE [text |-> "Speed: ",
          hundredths |-> FormatTwoDecimals(IdleSpeedConverted(raw, unit)),
          unit |-> unit]

(***************************************************************************)
(* usb_hid_keys.  USB_HID_KEYS maps the names shown in the key choices to  *)
(* key codes; USB_HID_KEYCODES maps each key code to its position in that  *)
(* list.  Both are built from one ordered list that starts with "none"     *)
(* (code 0); the codes here are that list for "none" and the letters A..Z. *)
(***************************************************************************)
USB_HID_KEYCODE_LIST == <<0>> \o [i \in 1..26 |-> 3 + i]

\* "keycode in USB_HID_KEYCODES"
IsKnownKeycode(k) ==
    \E i \in 1..Len(USB_HID_KEYCODE_LIST) : USB_HID_KEYCODE_LIST[i] = k

\* USB_HID_KEYCODES[keycode]: the selection index of a known key code
USB_HID_KEYCODES(k) ==
    (CHOOSE i \in 1..Len(USB_HID_KEYCODE_LIST) : USB_HID_KEYCODE_LIST[i] = k) - 1

\* USB_HID_KEYS[name] for the letter name
USB_HID_KEYS(name) ==
    CASE name = "Z" -> 29 [] name = "S" -> 22 [] name = "X" -> 27
      [] name = "D" -> 7  [] name = "C" -> 6  [] name = "F" -> 9
      [] name = "V" -> 25 [] name = "Q" -> 20 [] name = "W" -> 26
      [] name = "E" -> 8  [] name = "R" -> 21 [] name = "J" -> 13
      [] name = "K" -> 14

\* lines 994-995 of on_clear_all
ClearAllKeycodes == Zeros(ARCIN_CONFIG_VALID_KEYCODES)

\* lines 998-1018 of on_buttons
ButtonsKeycodes ==
    [i \in 1..13 |->
        USB_HID_KEYS(<<"Z", "S", "X", "D", "C", "F", "V",
                       "Q", "W", "E", "R", "J", "K">>[i])]

\* lines 952-968 and 1092-1096: thirteen choices, each on item 0
NewKeybindsControls == Zeros(ARCIN_CONFIG_VALID_KEYCODES)

\* lines 1073-1078 of populate_ui_from_keycodes: the selections for a list
\* of at least thirteen key codes
KeybindsSelections(codes) ==
    [i \in 1..ARCIN_CONFIG_VALID_KEYCODES |->
        IF IsKnownKeycode(codes[i]) THEN USB_HID_KEYCODES(codes[i]) ELSE 0]

\* the selections of the first twelve controls only
extract_keycodes_from_ui_short(sels) ==
    [i \in 1..(Len(sels) - 1) |-> USB_HID_KEYCODE_LIST[sels[i] + 1]]

\* lines 1080-1090: the key code of every control's selection
extract_keycodes_from_ui(sels) ==
    [i \in 1..Len(sels) |-> USB_HID_KEYCODE_LIST[sels[i] + 1]]

(***************************************************************************)
(* The remapper window: four choices over EFFECTOR_NAMES (4 items).        *)
(***************************************************************************)
\* lines 1138-1159: a new wx.Choice has no selection
NewRemapControls == <<-1, -1, -1, -1>>

\* Select(n) is valid for an item index
ValidRemapSelection(n) == n \in 0..3

\* lines 1182-1189
extract_remap_from_ui(sels) == [i \in 1..4 |-> sels[i] + 1]

(***************************************************************************)
(* The label.  title_ctrl.SetValue(conf.label) receives the 12 bytes of    *)
(* the record: wx decodes bytes as UTF-8 and raises for bytes that are not *)
(* UTF-8, and the text control keeps the text before the first null.       *)
(***************************************************************************)
\* the code points of UTF-8 bytes (sequences of one and two bytes), or
\* <<-1>> for anything else
RECURSIVE DecodeUtf8(_)
DecodeUtf8(bs) ==
    IF bs = <<>> THEN <<>>
    ELSE IF Head(bs) < 128
    THEN LET rest == DecodeUtf8(Tail(bs))
         IN IF rest = <<-1>> THEN rest ELSE <<Head(bs)>> \o rest
    ELSE IF /\ Head(bs) \in 194..223
            /\ Len(bs) >= 2
            /\ bs[2] \in 128..191
    THEN LET rest == DecodeUtf8(Tail(Tail(bs)))
         IN IF rest = <<-1>> THEN rest
            ELSE <<(Head(bs) - 192) * 64 + (bs[2] - 128)>> \o rest
    ELSE <<-1>>

\* the part of a text before its first null character
RECURSIVE UntilNull(_)
UntilNull(cps) ==
    IF cps = <<>> \/ Head(cps) = 0 THEN <<>>
    ELSE <<Head(cps)>> \o UntilNull(Tail(cps))

\* the label can be shown
TitleAccepted(label) == label.t = "str" \/ DecodeUtf8(label.v) # <<-1>>

\* the text of title_ctrl after SetValue(label)
TitleText(label) ==
    UntilNull(IF label.t = "str" THEN label.v ELSE DecodeUtf8(label.v))

(***************************************************************************)
(* RgbConfig and the record built by __extract_conf_from_gui__.            *)
(***************************************************************************)
\* lines 873-885: RgbConfig(...) of a record
RgbConfigOf(c) ==
    [flags |-> c.rgb_flags,
     rgb1 |-> <<c.rgb_red, c.rgb_green, c.rgb_blue>>,
     darkness |-> c.rgb_darkness,
     rgb2 |-> <<c.rgb_red_2, c.rgb_green_2, c.rgb_blue_2>>,
     rgb3 |-> <<c.rgb_red_3, c.rgb_green_3, c.rgb_blue_3>>,
     mode |-> c.rgb_mode,
     num_leds |-> c.rgb_num_leds,
     idle_speed |-> c.rgb_idle_speed,
     idle_brightness |-> c.rgb_idle_brightness,
     tt_speed |-> c.rgb_tt_speed,
     mode_options |-> c.rgb_mode_options]

\* lines 751-761: the RGB values used while rgb_config is None
DefaultRgbConfig ==
    [flags |-> 0, rgb1 |-> <<0, 0, 0>>, darkness |-> 0,
     rgb2 |-> <<0, 0, 0>>, rgb3 |-> <<0, 0, 0>>,
     mode |-> 0, num_leds |-> 12, idle_speed |-> 0, idle_brightness |-> 0,
     tt_speed |-> 0, mode_options |-> 0]

\* lines 695-803: the record for the controls c, self.keycodes kc,
\* self.remap r and self.rgb_config rc
ExtractConf(c, kc, r, rc) ==
    LET rgb == IF rc = None THEN DefaultRgbConfig ELSE rc[1]
    IN [label |-> Str(c.title),
        flags |-> ExtractFlags(c),
        qe1_sens |-> ExtractSens(c),
        qe2_sens |-> 0,
        debounce_ticks |-> ExtractDebounce(c),
        keycodes |-> Bytes(IF kc = None THEN Zeros(ARCIN_CONFIG_VALID_KEYCODES)
                           ELSE kc[1]),
        remap_start_sel |-> RemapPack(r[1], r[2]),
        remap_b8_b9 |-> RemapPack(r[3], r[4]),
        rgb_flags |-> rgb.flags,
        rgb_red |-> rgb.rgb1[1], rgb_green |-> rgb.rgb1[2],
        rgb_blue |-> rgb.rgb1[3],
        rgb_darkness |-> rgb.darkness,
        rgb_red_2 |-> rgb.rgb2[1], rgb_green_2 |-> rgb.rgb2[2],
        rgb_blue_2 |-> rgb.rgb2[3],
        rgb_red_3 |-> rgb.rgb3[1], rgb_green_3 |-> rgb.rgb3[2],
        rgb_blue_3 |-> rgb.rgb3[3],
        rgb_mode |-> rgb.mode, rgb_num_leds |-> rgb.num_leds,
        rgb_idle_speed |-> rgb.idle_speed,
        rgb_idle_brightness |-> rgb.idle_brightness,
        rgb_tt_speed |-> rgb.tt_speed,
        rgb_mode_options |-> rgb.mode_options]


(***************************************************************************)
(* The transport (pywinusb HidDevice / HidReport), as the sessions use it. *)
(* open, find_feature_reports and get fail by raising (a get that         *)
(* delivers too little data is a short buffer in DevicePayloads);          *)
(* send_feature_report hands back the outcome of the transfer as its       *)
(* return value ("ok" / "fail"), which lines 336 and 341 do not look at,   *)
(* and may also raise.  close always completes.                            *)
(***************************************************************************)
CallOutcomes == {"ok", "raise"}

SendOutcomes == {"ok", "fail", "raise"}

\* a feature report of the device: its id and whether it carries the
\* config usage CONFIG_SEGMENT_ID
ReportKinds ==
    {[id |-> CONFIG_REPORT_ID, seg |-> TRUE],
     [id |-> CONFIG_REPORT_ID, seg |-> FALSE],
     [id |-> COMMAND_REPORT_ID, seg |-> FALSE]}

\* what device.find_feature_reports() may return
ReportLists ==
    UNION {[1..n -> ReportKinds] : n \in 0..MaxReports}

Call(name, data, res) == [call |-> name, data |-> data, res |-> res]

VARIABLES
    pc,        \* position inside load_from_device / save_to_device
    op,        \* the function running or last run: "none", "load", "save"
    handle,    \* HID handle of the device: "closed" or "open"
    log,       \* transport calls of the current call, in order
    exc,       \* an exception was caught by the except clause
    conf,      \* save_to_device: the conf argument
    packed,    \* save_to_device: the result of struct.pack
    reports,   \* load_from_device: the list being iterated
    idx,       \* load_from_device: position in reports
    cur,       \* load_from_device: the local conf
    src,       \* load_from_device: None or Some(buffer last handed to unpack)
    saveRet,   \* return value of save_to_device: <<result, message>>
    loadRet    \* return value of load_from_device: None or Some(record)

VARIABLES
    caller,          \* the handler of MainWindowFrame waiting for the session
    ctl,             \* the controls of the main window
    remap,           \* MainWindowFrame.remap: the contents of the list
    remap_shared,    \* MainWindowFrame.remap is the list DEFAULT_EFFECTOR_MAPPING
    default_mapping, \* the contents of the list DEFAULT_EFFECTOR_MAPPING
    keycodes,        \* MainWindowFrame.keycodes: None or Some(list)
    rgb_config,      \* MainWindowFrame.rgb_config: None or Some(RgbConfig)
    remapper_frame,  \* None or Some(selections of the four choices)
    keybinds_frame,  \* None or Some(selections of the thirteen choices)
    loading,         \* MainWindowFrame.loading
    buttons,         \* the Save and Load buttons are enabled
    selected,        \* devices_list.GetFirstSelected() >= 0
    timers,          \* pending wx.CallLater calls, oldest first
    edits            \* choices the user has made in the controls so far

VARIABLES
    pfn,       \* the conversion applied to one input (see PureInit)
    pin,       \* its input
    pout       \* the values computed from it so far, in order

sessionVars == <<pc, op, handle, log, exc, conf, packed, reports, idx, cur, src,
                 saveRet, loadRet>>

windowVars == <<ctl, remap, remap_shared, default_mapping, keycodes, rgb_config,
                remapper_frame, keybinds_frame, loading, buttons, selected,
                timers, edits>>

pureVars == <<pfn, pin, pout>>

vars == <<sessionVars, caller, windowVars, pureVars>>

NoRet == <<FALSE, "">>

\* no session has been entered
InitSession ==
    /\ pc = "idle"
    /\ op = "none"
    /\ handle = "closed"
    /\ log = <<>>
    /\ exc = FALSE
    /\ conf = DefaultConf
    /\ packed = PackFail
    /\ reports = <<>>
    /\ idx = 1
    /\ cur = None
    /\ src = None
    /\ saveRet = NoRet
    /\ loadRet = None
    /\ caller = "none"

\* __evaluate_save_load_buttons__ that looks at the selection only
EvaluateButtonsIgnoreLoading(sel, ld) == sel

\* lines 905-911: __evaluate_save_load_buttons__
EvaluateButtons(sel, ld) == sel /\ ~ld

\* remap = DEFAULT_EFFECTOR_MAPPING: the class attribute is the list itself
AssignedListIsShared == TRUE

\* line 361, DEFAULT_EFFECTOR_MAPPING.copy(): the class attribute is a new
\* list with the same items, not the list DEFAULT_EFFECTOR_MAPPING
CopiedListIsShared == FALSE

\* the list DEFAULT_EFFECTOR_MAPPING after the items r have been stored in
\* the list self.remap, one by one
DefaultsAfterStore(r) == IF remap_shared THEN r ELSE default_mapping

\* MainWindowFrame as constructed: the class attributes of lines 353-367, the
\* controls of __init__, and the device list filled by line 503
InitWindow ==
    /\ ctl = DefaultCtl
    /\ remap = DEFAULT_EFFECTOR_MAPPING
    /\ remap_shared = CopiedListIsShared
    /\ default_mapping = DEFAULT_EFFECTOR_MAPPING
    /\ keycodes = None
    /\ rgb_config = None
    /\ remapper_frame = None
    /\ keybinds_frame = None
    /\ loading = FALSE
    /\ selected \in BOOLEAN
    /\ buttons = EvaluateButtons(selected, FALSE)
    /\ timers = <<>>
    /\ edits = 0

Init ==
    /\ InitSession
    /\ InitWindow
    /\ pfn = "none"
    /\ pin = <<>>
    /\ pout = <<>>

\* no session is running: a caller may start one
Callable == pc \in {"idle", "done"}

\* device.open()
DeviceOpen(h, o) == IF o = "ok" THEN "open" ELSE h

\* close() that leaves the handle as it is
DeviceCloseLeak(h) == h

\* device.close()
DeviceClose(h) == "closed"

(***************************************************************************)
(* save_to_device(device, conf)                                            *)
(***************************************************************************)
\* lines 289-320: the arguments and the first try block
SaveEnter(c) ==
    /\ op' = "save"
    /\ conf' = c
    /\ packed' = PackConf(c)
    /\ log' = <<>>
    /\ exc' = FALSE
    /\ loadRet' = None
    /\ reports' = <<>>
    /\ idx' = 1
    /\ cur' = None
    /\ src' = None
    /\ IF PackConf(c).ok
       THEN /\ pc' = "s_open"
            /\ saveRet' = NoRet
       ELSE /\ pc' = "done"
            /\ saveRet' = <<FALSE, "Format error">>
    /\ UNCHANGED handle

\* save_to_device called on its own
SaveCall(c) ==
    /\ Callable
    /\ SaveEnter(c)
    /\ UNCHANGED <<caller, windowVars, pureVars>>

\* open() outside the try statement: a failed open returns at once
SaveOpenNoFinally(o) ==
    /\ pc = "s_open"
    /\ handle' = DeviceOpen(handle, o)
    /\ log' = Append(log, Call("open", <<>>, o))
    /\ exc' = (o = "raise")
    /\ pc' = IF o = "ok" THEN "s_send_config" ELSE "done"
    /\ saveRet' = IF o = "ok" THEN saveRet
                  ELSE <<FALSE, "Failed to write to device">>
    /\ UNCHANGED <<op, conf, packed, reports, idx, cur, src, loadRet>>
    /\ UNCHANGED <<caller, windowVars, pureVars>>

\* line 323: device.open()
SaveOpen(o) ==
    /\ pc = "s_open"
    /\ handle' = DeviceOpen(handle, o)
    /\ log' = Append(log, Call("open", <<>>, o))
    /\ exc' = (o = "raise")
    /\ pc' = IF o = "ok" THEN "s_send_config" ELSE "s_finally"
    /\ UNCHANGED <<op, conf, packed, reports, idx, cur, src, saveRet, loadRet>>
    /\ UNCHANGED <<caller, windowVars, pureVars>>

\* where save_to_device goes after a send that returned or raised
AfterConfigSend(o) == IF o = "raise" THEN "s_finally" ELSE "s_send_restart"

\* lines 324-336: build the report, assert its length, send it
SaveSendConfig(o) ==
    /\ pc = "s_send_config"
    /\ LET feature == BuildFeature(packed.bytes)
       IN IF Len(feature) # FEATURE_REPORT_LEN
          THEN /\ exc' = TRUE
               /\ pc' = "s_finally"
               /\ log' = log
          ELSE /\ log' = Append(log, Call("send", feature, o))
               /\ exc' = (o = "raise")
               /\ pc' = AfterConfigSend(o)
    /\ UNCHANGED <<op, handle, conf, packed, reports, idx, cur, src,
                   saveRet, loadRet>>
    /\ UNCHANGED <<caller, windowVars, pureVars>>

\* lines 340-341: the restart command
SaveSendRestart(o) ==
    /\ pc = "s_send_restart"
    /\ log' = Append(log, Call("send", RestartFeature, o))
    /\ exc' = (o = "raise")
    /\ pc' = "s_finally"
    /\ UNCHANGED <<op, handle, conf, packed, reports, idx, cur, src,
                   saveRet, loadRet>>
    /\ UNCHANGED <<caller, windowVars, pureVars>>

\* the value save_to_device returns from its second try statement
SaveResult(raised) ==
    IF raised THEN <<FALSE, "Failed to write to device">>
    ELSE <<TRUE, "Success">>

\* lines 343-348: except / finally / return
SaveFinally ==
    /\ pc = "s_finally"
    /\ handle' = DeviceClose(handle)
    /\ log' = Append(log, Call("close", <<>>, "ok"))
    /\ saveRet' = SaveResult(exc)
    /\ pc' = "done"
    /\ UNCHANGED <<op, exc, conf, packed, reports, idx, cur, src, loadRet>>
    /\ UNCHANGED <<caller, windowVars, pureVars>>


(***************************************************************************)
(* load_from_device(device)                                                *)
(***************************************************************************)
\* lines 258-260: conf = None
LoadEnter ==
    /\ op' = "load"
    /\ log' = <<>>
    /\ exc' = FALSE
    /\ cur' = None
    /\ src' = None
    /\ reports' = <<>>
    /\ idx' = 1
    /\ loadRet' = None
    /\ saveRet' = NoRet
    /\ pc' = "l_open"
    /\ conf' = DefaultConf
    /\ packed' = PackFail
    /\ UNCHANGED handle

\* load_from_device called on its own
LoadCall ==
    /\ Callable
    /\ LoadEnter
    /\ UNCHANGED <<caller, windowVars, pureVars>>

\* line 261: device.open()
LoadOpen(o) ==
    /\ pc = "l_open"
    /\ handle' = DeviceOpen(handle, o)
    /\ log' = Append(log, Call("open", <<>>, o))
    /\ exc' = (o = "raise")
    /\ pc' = IF o = "ok" THEN "l_find" ELSE "l_finally"
    /\ UNCHANGED <<op, conf, packed, reports, idx, cur, src, saveRet, loadRet>>
    /\ UNCHANGED <<caller, windowVars, pureVars>>

\* line 262: device.find_feature_reports()
LoadFind(o, rs) ==
    /\ pc = "l_find"
    /\ log' = Append(log, Call("find", <<>>, o))
    /\ exc' = (o = "raise")
    /\ reports' = IF o = "ok" THEN rs ELSE <<>>
    /\ idx' = 1
    /\ pc' = IF o = "ok" THEN "l_loop" ELSE "l_finally"
    /\ UNCHANGED <<op, handle, conf, packed, cur, src, saveRet, loadRet>>
    /\ UNCHANGED <<caller, windowVars, pureVars>>

\* lines 262-264: a report that is not the config report is passed over
LoadSkip ==
    /\ pc = "l_loop"
    /\ idx <= Len(reports)
    /\ reports[idx].id # CONFIG_REPORT_ID
    /\ idx' = idx + 1
    /\ UNCHANGED <<pc, op, handle, log, exc, conf, packed, reports, cur, src,
                   saveRet, loadRet>>
    /\ UNCHANGED <<caller, windowVars, pureVars>>

\* lines 281-283 of parse_device: report[CONFIG_SEGMENT_ID] raises for a
\* report without the usage
HasConfigPage(report) == report.seg

\* lines 264-271: report.get() and parse_device(report) for the config report
LoadGetParse(o, data) ==
    /\ pc = "l_loop"
    /\ idx <= Len(reports)
    /\ reports[idx].id = CONFIG_REPORT_ID
    /\ log' = Append(log, Call("get", <<>>, o))
    /\ IF o = "raise"
       THEN /\ exc' = TRUE
            /\ pc' = "l_finally"
            /\ UNCHANGED <<cur, src, idx>>
       ELSE IF ~HasConfigPage(reports[idx]) \/ parse_device(data) = None
       THEN /\ exc' = TRUE
            /\ pc' = "l_finally"
            /\ src' = IF HasConfigPage(reports[idx]) THEN Some(data) ELSE src
            /\ UNCHANGED <<cur, idx>>
       ELSE /\ cur' = parse_device(data)
            /\ src' = Some(data)
            /\ idx' = idx + 1
            /\ UNCHANGED <<exc, pc>>
    /\ UNCHANGED <<op, handle, conf, packed, reports, saveRet, loadRet>>
    /\ UNCHANGED <<caller, windowVars, pureVars>>

\* line 262: the report list is exhausted
LoadLoopEnd ==
    /\ pc = "l_loop"
    /\ idx > Len(reports)
    /\ pc' = "l_finally"
    /\ UNCHANGED <<op, handle, log, exc, conf, packed, reports, idx, cur, src,
                   saveRet, loadRet>>
    /\ UNCHANGED <<caller, windowVars, pureVars>>

\* an except clause that falls through to "return conf"
LoadResultKeep(raised, c) == c

\* the value load_from_device returns
LoadResult(raised, c) == IF raised THEN None ELSE c

\* lines 273-279: except / finally / return
LoadFinally ==
    /\ pc = "l_finally"
    /\ handle' = DeviceClose(handle)
    /\ log' = Append(log, Call("close", <<>>, "ok"))
    /\ loadRet' = LoadResult(exc, cur)
    /\ pc' = "done"
    /\ UNCHANGED <<op, exc, conf, packed, reports, idx, cur, src, saveRet>>
    /\ UNCHANGED <<caller, windowVars, pureVars>>

(***************************************************************************)
(* MainWindowFrame and its sub-windows.  wx runs one handler at a time: a  *)
(* handler starts only while no other handler and no session is running.   *)
(***************************************************************************)
GuiIdle == pc = "idle" /\ caller = "none"

\* how a Select() with an index outside the items ends, by platform and
\* build of wx: a failed assertion raised in Python as wx.wxAssertionError,
\* the call dropped with the selection as it was, or the selection cleared
\* (the native control is handed the index and deselects)
AssertOutcomes == {"raise", "ignore", "clear"}

\* what a spin control holds after SetValue() of a value outside its range
SpinOutcomes == {"clamp", "raw"}

\* wx.SpinCtrl(min=2, max=10).SetValue(v)
SpinCtrlSetValue(v, d) ==
    IF 2 <= v /\ v <= 10 THEN v
    ELSE IF d = "raw" THEN v
    ELSE IF v < 2 THEN 2 ELSE 10

\* the locals of a finished session are gone
SessionReturn ==
    /\ pc' = "idle"
    /\ op' = "none"
    /\ log' = <<>>
    /\ exc' = FALSE
    /\ conf' = DefaultConf
    /\ packed' = PackFail
    /\ reports' = <<>>
    /\ idx' = 1
    /\ cur' = None
    /\ src' = None
    /\ saveRet' = NoRet
    /\ loadRet' = None
    /\ caller' = "none"
    /\ UNCHANGED handle

\* lines 671-675: self.remap after close_remapper_window()
RemapAfterClose ==
    IF remapper_frame = None THEN remap
    ELSE extract_remap_from_ui(remapper_frame[1])

\* line 670: extract_remap_from_ui() returns a new list, which self.remap
\* then names
SharedAfterClose == IF remapper_frame = None THEN remap_shared ELSE FALSE

\* lines 677-681: self.keycodes after close_keybinds_window()
KeycodesAfterClose ==
    IF keybinds_frame = None THEN keycodes
    ELSE Some(extract_keycodes_from_ui(keybinds_frame[1]))

\* lines 572-574 and 887-899: on_refresh finds n devices
OnRefresh(n) ==
    /\ GuiIdle
    /\ selected' = (n > 0)
    /\ buttons' = EvaluateButtons(selected', loading)
    /\ UNCHANGED <<sessionVars, caller, ctl, remap, remap_shared, default_mapping, keycodes, rgb_config,
                   remapper_frame, keybinds_frame, loading, timers, edits, pureVars>>

\* lines 576-585: the Load button up to the call of load_from_device
OnLoad ==
    /\ GuiIdle
    /\ buttons
    /\ remap' = RemapAfterClose
    /\ remap_shared' = SharedAfterClose
    /\ keycodes' = KeycodesAfterClose
    /\ remapper_frame' = None
    /\ keybinds_frame' = None
    /\ IF selected
       THEN LoadEnter /\ caller' = "on_load"
       ELSE UNCHANGED <<sessionVars, caller>>
    /\ UNCHANGED <<ctl, default_mapping, rgb_config, loading, buttons, selected,
                   timers, edits, pureVars>>

\* lines 587-600: on_load after load_from_device has returned
OnLoadReturn ==
    /\ pc = "done"
    /\ caller = "on_load"
    /\ IF loadRet # None
       THEN /\ loading' = TRUE
            /\ buttons' = EvaluateButtons(selected, TRUE)
            /\ timers' = Append(timers, [fn |-> "on_load_deferred",
                                         conf |-> loadRet[1]])
       ELSE /\ loading' = FALSE
            /\ buttons' = EvaluateButtons(selected, FALSE)
            /\ UNCHANGED timers
    /\ SessionReturn
    /\ UNCHANGED <<ctl, remap, remap_shared, default_mapping, keycodes, rgb_config, remapper_frame,
                   keybinds_frame, selected, edits, pureVars>>

\* lines 602-608 and 805-885: the timer of on_load runs on_load_deferred.
\* __populate_from_conf__ stops where a call raises: at line 807 for a label
\* that cannot be shown, at line 862 for Select(-4) when wx raises; the
\* handler then ends without reaching line 604.
OnLoadDeferred(w, d) ==
    /\ GuiIdle
    /\ timers # <<>>
    /\ Head(timers).fn = "on_load_deferred"
    /\ LET c == Head(timers).conf
           shown == PopulateFlags([ctl EXCEPT !.title = TitleText(c.label)],
                                  c.flags)
           spun == [shown EXCEPT
                      !.debounce = SpinCtrlSetValue(c.debounce_ticks, d)]
           index == SensIndex(c.qe1_sens)
           found == index \in 0..(Len(SENS_OPTIONS) - 1)
           ended == TitleAccepted(c.label) /\ (found \/ w # "raise")
       IN /\ timers' = Tail(timers)
          /\ ctl' = IF ~TitleAccepted(c.label) THEN ctl
                    ELSE IF found THEN [spun EXCEPT !.qe1_sens = index]
                    ELSE IF w = "clear" THEN [spun EXCEPT !.qe1_sens = -1]
                    ELSE spun
          /\ IF ended
             THEN /\ keycodes' = Some(c.keycodes.v)
                  /\ remap' = RemapNibbles(c.remap_start_sel, c.remap_b8_b9)
                  /\ default_mapping' = DefaultsAfterStore(remap')
                  /\ rgb_config' = Some(RgbConfigOf(c))
                  /\ loading' = FALSE
                  /\ buttons' = EvaluateButtons(selected, FALSE)
             ELSE UNCHANGED <<keycodes, remap, default_mapping, rgb_config,
                              loading, buttons>>
    /\ UNCHANGED <<sessionVars, caller, remap_shared, remapper_frame, keybinds_frame,
                   selected, edits, pureVars>>

\* lines 610-626: the Save button
OnSave ==
    /\ GuiIdle
    /\ buttons
    /\ remap' = RemapAfterClose
    /\ remap_shared' = SharedAfterClose
    /\ keycodes' = KeycodesAfterClose
    /\ remapper_frame' = None
    /\ keybinds_frame' = None
    /\ IF selected
       THEN /\ loading' = TRUE
            /\ buttons' = EvaluateButtons(selected, TRUE)
            /\ timers' = Append(timers,
                    [fn |-> "on_save_deferred",
                     conf |-> ExtractConf(ctl, keycodes', remap', rgb_config)])
       ELSE UNCHANGED <<loading, buttons, timers>>
    /\ UNCHANGED <<sessionVars, caller, ctl, default_mapping, rgb_config,
                   selected, edits, pureVars>>

\* lines 628-630: the timer of on_save runs on_save_deferred up to the call
\* of save_to_device
OnSaveDeferred ==
    /\ GuiIdle
    /\ timers # <<>>
    /\ Head(timers).fn = "on_save_deferred"
    /\ loading' = FALSE
    /\ buttons' = EvaluateButtons(selected, FALSE)
    /\ timers' = Tail(timers)
    /\ SaveEnter(Head(timers).conf)
    /\ caller' = "on_save_deferred"
    /\ UNCHANGED <<ctl, remap, remap_shared, default_mapping, keycodes, rgb_config, remapper_frame,
                   keybinds_frame, selected, edits, pureVars>>

\* lines 631-636: on_save_deferred after save_to_device has returned
OnSaveReturn ==
    /\ pc = "done"
    /\ caller = "on_save_deferred"
    /\ SessionReturn
    /\ UNCHANGED <<windowVars, pureVars>>

\* lines 638-646 and 1165-1180: the remapper window is created for
\* self.remap, whose zero entries populate_ui_from_remap overwrites in place;
\* a Select() that raises ends the constructor before line 640 assigns
OnRemapperButton(w) ==
    /\ GuiIdle
    /\ remapper_frame = None
    /\ LET r == ZeroToDefault(remap, default_mapping)
           valid == \A k \in 1..4 : ValidRemapSelection(r[k] - 1)
       IN /\ remap' = r
          /\ default_mapping' = DefaultsAfterStore(r)
          /\ remapper_frame' =
                IF ~valid /\ w = "raise" THEN None
                ELSE Some([k \in 1..4 |->
                            IF ValidRemapSelection(r[k] - 1) THEN r[k] - 1
                            ELSE NewRemapControls[k]])
    /\ UNCHANGED <<sessionVars, caller, ctl, remap_shared, keycodes, rgb_config,
                   keybinds_frame, loading, buttons, selected, timers, edits, pureVars>>

\* the choices of the remapper window the user changes, and the items picked
RemapEditControls == {1, 4}

RemapEditItems == {0, 3}

\* the user picks item v in choice k of the remapper window
RemapperSelect(k, v) ==
    /\ GuiIdle
    /\ remapper_frame # None
    /\ edits < MaxEdits
    /\ edits' = edits + 1
    /\ remapper_frame' = Some([remapper_frame[1] EXCEPT ![k] = v])
    /\ UNCHANGED <<sessionVars, caller, ctl, remap, remap_shared, default_mapping, keycodes, rgb_config,
                   keybinds_frame, loading, buttons, selected, timers, pureVars>>

\* lines 683-684: the remapper window is closed
OnRemapperFrameClosed ==
    /\ GuiIdle
    /\ remapper_frame # None
    /\ remap' = RemapAfterClose
    /\ remap_shared' = SharedAfterClose
    /\ remapper_frame' = None
    /\ UNCHANGED <<sessionVars, caller, ctl, default_mapping, keycodes, rgb_config,
                   keybinds_frame, loading, buttons, selected, timers, edits, pureVars>>

\* lines 648-656 and 952-971: the keybinds window is created for
\* self.keycodes
OnKeybindsButton ==
    /\ GuiIdle
    /\ keybinds_frame = None
    /\ keybinds_frame' = Some(IF keycodes = None THEN NewKeybindsControls
                              ELSE KeybindsSelections(keycodes[1]))
    /\ UNCHANGED <<sessionVars, caller, ctl, remap, remap_shared, default_mapping, keycodes, rgb_config,
                   remapper_frame, loading, buttons, selected, timers, edits, pureVars>>

\* a preset of the keybinds window's menu fills the thirteen choices
KeybindsPreset(codes) ==
    /\ GuiIdle
    /\ keybinds_frame # None
    /\ edits < MaxEdits
    /\ edits' = edits + 1
    /\ keybinds_frame' = Some(KeybindsSelections(codes))
    /\ UNCHANGED <<sessionVars, caller, ctl, remap, remap_shared, default_mapping, keycodes, rgb_config,
                   remapper_frame, loading, buttons, selected, timers, pureVars>>

\* lines 993-995
on_clear_all == KeybindsPreset(ClearAllKeycodes)

\* lines 997-1020
on_buttons == KeybindsPreset(ButtonsKeycodes)

\* lines 686-687: the keybinds window is closed
OnKeybindsFrameClosed ==
    /\ GuiIdle
    /\ keybinds_frame # None
    /\ keycodes' = KeycodesAfterClose
    /\ keybinds_frame' = None
    /\ UNCHANGED <<sessionVars, caller, ctl, remap, remap_shared, default_mapping, rgb_config,
                   remapper_frame, loading, buttons, selected, timers, edits, pureVars>>

\* what the user may choose in the main window: a control and its new value
UserEdits ==
    { <<"multitap", TRUE>>, <<"qe1_tt", 1>>, <<"qe1_sens", 3>> }

\* the user changes one control of the main window
OnControlEdit(e) ==
    /\ GuiIdle
    /\ edits < MaxEdits
    /\ edits' = edits + 1
    /\ ctl' = [ctl EXCEPT ![e[1]] = e[2]]
    /\ UNCHANGED <<sessionVars, caller, remap, remap_shared, default_mapping, keycodes, rgb_config,
                   remapper_frame, keybinds_frame, loading, buttons, selected,
                   timers, pureVars>>

Next ==
    \/ \E c \in ConfInputs : SaveCall(c)
    \/ \E o \in CallOutcomes : SaveOpen(o)
    \/ \E o \in SendOutcomes : SaveSendConfig(o)
    \/ \E o \in SendOutcomes : SaveSendRestart(o)
    \/ SaveFinally
    \/ LoadCall
    \/ \E o \in CallOutcomes : LoadOpen(o)
    \/ \E o \in CallOutcomes, rs \in ReportLists : LoadFind(o, rs)
    \/ LoadSkip
    \/ \E o \in CallOutcomes, data \in DevicePayloads : LoadGetParse(o, data)
    \/ LoadLoopEnd
    \/ LoadFinally

Spec == Init /\ [][Next]_vars

(***************************************************************************)
(* The application: the handlers of the windows, and the sessions they     *)
(* run against a device that holds one of GuiPayloads.                     *)
(***************************************************************************)
\* a record with 16 key codes (the last three in the reserved bytes) and a
\* remap byte whose nibbles are 5 and 0
WornConf ==
    [BusyConf EXCEPT !.keycodes = Bytes([i \in 1..16 |-> 3 + i]),
                     !.remap_b8_b9 = 80]

\* a record whose sensitivity is no value of SENS_OPTIONS
OddSensConf == [DefaultConf EXCEPT !.qe1_sens = -5]

GuiPayloads ==
    {PackConf(c).bytes : c \in {WornConf, OddSensConf}}
    \cup {Fill(0), Slice(Fill(0), CONFIG_REPORT_SIZE - 1)}

\* the device lists its config report
GuiReportLists == {<<[id |-> CONFIG_REPORT_ID, seg |-> TRUE]>>}

GuiNext ==
    \/ \E n \in 0..1 : OnRefresh(n)
    \/ OnLoad
    \/ OnLoadReturn
    \/ \E w \in AssertOutcomes, d \in SpinOutcomes : OnLoadDeferred(w, d)
    \/ OnSave
    \/ OnSaveDeferred
    \/ OnSaveReturn
    \/ \E w \in AssertOutcomes : OnRemapperButton(w)
    \/ \E k \in RemapEditControls, v \in RemapEditItems : RemapperSelect(k, v)
    \/ OnRemapperFrameClosed
    \/ OnKeybindsButton
    \/ on_clear_all
    \/ on_buttons
    \/ OnKeybindsFrameClosed
    \/ \E e \in UserEdits : OnControlEdit(e)
    \/ \E o \in CallOutcomes : SaveOpen(o)
    \/ SaveSendConfig("ok")
    \/ SaveSendRestart("ok")
    \/ SaveFinally
    \/ \E o \in CallOutcomes : LoadOpen(o)
    \/ \E rs \in GuiReportLists : LoadFind("ok", rs)
    \/ \E data \in GuiPayloads : LoadGetParse("ok", data)
    \/ LoadLoopEnd
    \/ LoadFinally

GuiSpec == Init /\ [][GuiNext]_vars

(***************************************************************************)
(* The Load and Save buttons on their own, with every way the device       *)
(* operation can end, and the code that runs without the user: the rest of *)
(* a handler after its session, the sessions' steps, the timers.           *)
(***************************************************************************)
\* a record this program saved for the label "a" and six times U+00E9:
\* 13 bytes of UTF-8, of which the record holds the first 12
CutLabelConf == [DefaultConf EXCEPT !.label = Str(<<97>> \o WideLabel(6))]

LivePayloads ==
    {PackConf(c).bytes : c \in {WornConf, OddSensConf, CutLabelConf}}
    \cup {Slice(Fill(0), CONFIG_REPORT_SIZE - 1)}

\* what runs once it can, without the user
LiveProgress ==
    \/ OnLoadReturn
    \/ \E w \in AssertOutcomes, d \in SpinOutcomes : OnLoadDeferred(w, d)
    \/ OnSaveDeferred
    \/ OnSaveReturn
    \/ \E o \in CallOutcomes : SaveOpen(o)
    \/ \E o \in SendOutcomes : SaveSendConfig(o)
    \/ \E o \in SendOutcomes : SaveSendRestart(o)
    \/ SaveFinally
    \/ \E o \in CallOutcomes : LoadOpen(o)
    \/ \E o \in CallOutcomes, rs \in GuiReportLists : LoadFind(o, rs)
    \/ \E o \in CallOutcomes, data \in LivePayloads : LoadGetParse(o, data)
    \/ LoadLoopEnd
    \/ LoadFinally

LiveNext ==
    \/ \E n \in 0..1 : OnRefresh(n)
    \/ OnLoad
    \/ OnSave
    \/ LiveProgress

\* where the handler that is running stands: every step of a handler that
\* has started and not yet returned moves it
HandlerPosition == <<pc, idx, caller>>

\* a step of a handler that has started and not yet returned
HandlerStep ==
    /\ ~GuiIdle
    /\ pc' \in {"idle", "done", "s_open", "s_send_config", "s_send_restart",
               "s_finally", "l_open", "l_find", "l_loop", "l_finally"}
    /\ idx' \in {idx, idx + 1}
    /\ caller' \in {caller, "none"}

\* lines 593 and 626: the timer of wx.CallLater that is due is taken off the
\* queue and its callback runs
TimerStep == GuiIdle /\ timers # <<>> /\ timers' = Tail(timers)

\* a handler that has started runs to its end (Python runs it without
\* yielding to the event loop), and a timer that is due runs
LiveSpec ==
    /\ Init /\ [][LiveNext]_vars
    /\ WF_HandlerPosition(HandlerStep)
    /\ WF_timers(TimerStep)

(***************************************************************************)
(* The conversions on their own: one input, and the functions of the       *)
(* window code applied to it in the order the program applies them.        *)
(***************************************************************************)
\* the bits of the three enumerations
EnumBits == <<3, 6, 7, 8, 11, 12>>

\* flags with the enumeration bits chosen by m on top of the bits of base
FlagsWith(m, base) ==
    base + m[1] * Shl(1, EnumBits[1]) + m[2] * Shl(1, EnumBits[2])
         + m[3] * Shl(1, EnumBits[3]) + m[4] * Shl(1, EnumBits[4])
         + m[5] * Shl(1, EnumBits[5]) + m[6] * Shl(1, EnumBits[6])

\* no other bit, every other bit below 14, and bits 2, 14 and 30
FlagBases == {0, 9783, 1073758212}

FlagInputs == {FlagsWith(m, b) : m \in [1..6 -> {0, 1}], b \in FlagBases}

RemapInputs == [1..4 -> 0..MaxRemapId]

\* the main window with every setting of the six check boxes, the poll rate
\* (2 items) and the three choices (3 items each)
ControlInputs ==
    {[DefaultCtl EXCEPT
        !.multitap = b[1], !.qe1_invert = b[2], !.debounce_check = b[3],
        !.mode_switch = b[4], !.led_off = b[5], !.ws2812b = b[6],
        !.poll_rate = p, !.qe1_tt = e[1], !.input_mode = e[2],
        !.led_mode = e[3]] :
     b \in [1..6 -> BOOLEAN], p \in 0..1, e \in [1..3 -> 0..2]}

ModeInputs == (0..MaxPaletteInput) \X (0..MaxMultiplicityInput)

PureInit ==
    /\ InitSession
    /\ InitWindow
    /\ \/ pfn = "flags" /\ pin \in FlagInputs
       \/ pfn = "remap" /\ pin \in RemapInputs
       \/ pfn = "mode_options" /\ pin \in ModeInputs
       \/ pfn = "debounce" /\ pin \in 0..MaxDebounceInput
       \/ pfn = "rgb_flags" /\ pin \in 0..255
       \/ pfn = "controls" /\ pin \in ControlInputs
       \/ pfn = "idle_speed"
          /\ pin \in (0..IdleSpeedSliderMax) \X {"", "RPM", "BPM"}
    /\ pout = <<>>

\* lines 809-853: the flag controls for the flags pin
PopulateFlagsStep ==
    /\ pfn = "flags"
    /\ pout = <<>>
    /\ pout' = <<PopulateFlags(DefaultCtl, pin)>>
    /\ UNCHANGED <<sessionVars, caller, windowVars, pfn, pin>>

\* lines 748-749: the two remap bytes for the ids pin
RemapPackStep ==
    /\ pfn = "remap"
    /\ Len(pout) = 0
    /\ pout' = <<<<RemapPack(pin[1], pin[2]), RemapPack(pin[3], pin[4])>>>>
    /\ UNCHANGED <<sessionVars, caller, windowVars, pfn, pin>>

\* lines 868-871: the nibbles of the two bytes
RemapNibblesStep ==
    /\ pfn = "remap"
    /\ Len(pout) = 1
    /\ pout' = Append(pout, RemapNibbles(pout[1][1], pout[1][2]))
    /\ UNCHANGED <<sessionVars, caller, windowVars, pfn, pin>>

\* lines 1173-1175: the defaults for the zero nibbles
RemapDefaultsStep ==
    /\ pfn = "remap"
    /\ Len(pout) = 2
    /\ pout' = Append(pout, DefaultsForZero(pout[2]))
    /\ UNCHANGED <<sessionVars, caller, windowVars, pfn, pin>>

\* lines 1427-1428: mode_options for palette pin[1] and multiplicity pin[2]
ModePackStep ==
    /\ pfn = "mode_options"
    /\ Len(pout) = 0
    /\ pout' = <<PackModeOptions(pin[1], pin[2])>>
    /\ UNCHANGED <<sessionVars, caller, windowVars, pfn, pin>>

\* lines 1387-1388: palette and multiplicity of mode_options
ModeUnpackStep ==
    /\ pfn = "mode_options"
    /\ Len(pout) = 1
    /\ pout' = Append(pout, <<UnpackPalette(pout[1]),
                              UnpackMultiplicity(pout[1])>>)
    /\ UNCHANGED <<sessionVars, caller, windowVars, pfn, pin>>

\* lines 695-803: the record for a main window whose spin control holds pin
DebounceExtractStep ==
    /\ pfn = "debounce"
    /\ Len(pout) = 0
    /\ pout' = <<ExtractConf([DefaultCtl EXCEPT !.debounce = pin], None,
                             DEFAULT_EFFECTOR_MAPPING, None)>>
    /\ UNCHANGED <<sessionVars, caller, windowVars, pfn, pin>>

\* lines 292-320: save_to_device packs that record
DebouncePackStep ==
    /\ pfn = "debounce"
    /\ Len(pout) = 1
    /\ pout' = Append(pout, PackConf(pout[1]))
    /\ UNCHANGED <<sessionVars, caller, windowVars, pfn, pin>>

\* lines 1378-1400: the flag controls of the RGB window for rgb_flags pin
RgbPopulateStep ==
    /\ pfn = "rgb_flags"
    /\ Len(pout) = 0
    /\ pout' = <<RgbPopulateFlags(pin)>>
    /\ UNCHANGED <<sessionVars, caller, windowVars, pfn, pin>>

\* lines 1407-1419: the flags extracted from those controls
RgbExtractStep ==
    /\ pfn = "rgb_flags"
    /\ Len(pout) = 1
    /\ pout' = Append(pout, RgbExtractFlags(pout[1]))
    /\ UNCHANGED <<sessionVars, caller, windowVars, pfn, pin>>

\* lines 1549-1563: the label for slider value pin[1] and unit pin[2]
IdleSpeedStep ==
    /\ pfn = "idle_speed"
    /\ Len(pout) = 0
    /\ pout' = <<EvaluateIdleSpeed(pin[1], pin[2])>>
    /\ UNCHANGED <<sessionVars, caller, windowVars, pfn, pin>>

\* lines 697-731: the flags for the controls pin
ControlsExtractStep ==
    /\ pfn = "controls"
    /\ Len(pout) = 0
    /\ pout' = <<ExtractFlags(pin)>>
    /\ UNCHANGED <<sessionVars, caller, windowVars, pfn, pin>>

\* lines 809-853: a main window as constructed, populated from those flags
ControlsPopulateStep ==
    /\ pfn = "controls"
    /\ Len(pout) = 1
    /\ pout' = Append(pout, PopulateFlags(DefaultCtl, pout[1]))
    /\ UNCHANGED <<sessionVars, caller, windowVars, pfn, pin>>

\* lines 697-731: the flags for the populated controls
ControlsExtractAgainStep ==
    /\ pfn = "controls"
    /\ Len(pout) = 2
    /\ pout' = Append(pout, ExtractFlags(pout[2]))
    /\ UNCHANGED <<sessionVars, caller, windowVars, pfn, pin>>

PureNext ==
    \/ PopulateFlagsStep
    \/ RemapPackStep
    \/ RemapNibblesStep
    \/ RemapDefaultsStep
    \/ ModePackStep
    \/ ModeUnpackStep
    \/ DebounceExtractStep
    \/ DebouncePackStep
    \/ RgbPopulateStep
    \/ RgbExtractStep
    \/ IdleSpeedStep
    \/ ControlsExtractStep
    \/ ControlsPopulateStep
    \/ ControlsExtractAgainStep

PureSpec == PureInit /\ [][PureNext]_vars



(***************************************************************************)
(* Properties of the device sessions.                                      *)
(***************************************************************************)
Returned(f) == pc = "done" /\ op = f

\* positions in log of the feature reports sent
SendIdx == {i \in 1..Len(log) : log[i].call = "send"}

IsConfigSend(i) ==
    /\ log[i].call = "send"
    /\ Len(log[i].data) > 0
    /\ log[i].data[1] = CONFIG_REPORT_ID

IsRestartSend(i) == log[i].call = "send" /\ log[i].data = RestartFeature

CloseCount == Cardinality({i \in 1..Len(log) : log[i].call = "close"})

\* C1: the restart report [0xB0, 0x20] is sent only after the config report
\* (id 0xC0) was sent successfully in the same session; when the transport
\* reports an error for the config send, the restart report is never sent.
C1_RestartOnlyAfterConfigOk ==
    \A i \in 1..Len(log) :
        IsRestartSend(i) =>
            \E j \in 1..(i - 1) : IsConfigSend(j) /\ log[j].res = "ok"

\* C2: a transport failure at either send makes save_to_device return
\* (False, "Failed to write to device"); (True, "Success") is returned only
\* when open and both sends succeeded.
C2_SendFailureIsWriteFailure ==
    Returned("save") =>
        /\ (\E i \in SendIdx : log[i].res # "ok")
              => saveRet = <<FALSE, "Failed to write to device">>
        /\ saveRet = <<TRUE, "Success">>
              => /\ Cardinality(SendIdx) = 2
                 /\ \A i \in 1..Len(log) : log[i].res = "ok"

\* C3: whenever load_from_device or save_to_device has returned, on every
\* exit path, the device handle is closed.
C3_HandleClosedOnReturn ==
    pc = "done" => handle = "closed"

\* an error exit taken after the handle was opened
C3_Witness ==
    /\ pc = "done"
    /\ exc
    /\ \E i \in 1..Len(log) : log[i].call = "open" /\ log[i].res = "ok"
    /\ handle = "closed"

\* C4 as stated: every load_from_device and save_to_device call, a format
\* error at encode included, calls device.close exactly once.
C4_CloseExactlyOnceAlways ==
    pc = "done" => CloseCount = 1

\* C4 amended: device.close is called exactly once, as the last transport
\* call, in every load_from_device call and in every save_to_device call
\* whose record encodes; after a format error the device is neither opened
\* nor closed.
C4_CloseExactlyOnce ==
    pc = "done" =>
        IF op = "save" /\ ~packed.ok
        THEN CloseCount = 0 /\ log = <<>>
        ELSE /\ CloseCount = 1
             /\ log[Len(log)].call = "close"
             /\ log[1].call = "open"

\* a failed open is still followed by the one close
C4_Witness ==
    /\ pc = "done"
    /\ Len(log) = 2
    /\ log[1].call = "open" /\ log[1].res = "raise"
    /\ log[2].call = "close"

\* some numeric field does not fit its packed type, or the label is not a str
FieldOutOfRange(c) ==
    \/ c.label.t # "str"
    \/ c.keycodes.t # "bytes"
    \/ c.flags < 0
    \/ \E f \in {"qe1_sens", "qe2_sens", "rgb_tt_speed"} : c[f] \notin -128..127
    \/ \E f \in {"debounce_ticks", "remap_start_sel", "remap_b8_b9",
                 "rgb_flags", "rgb_red", "rgb_green", "rgb_blue",
                 "rgb_darkness", "rgb_red_2", "rgb_green_2", "rgb_blue_2",
                 "rgb_red_3", "rgb_green_3", "rgb_blue_3", "rgb_mode",
                 "rgb_num_leds", "rgb_idle_speed", "rgb_idle_brightness",
                 "rgb_mode_options"} : c[f] \notin 0..255

\* C5: when encoding fails in save_to_device (a field out of its packed
\* range) the call returns (False, "Format error") and device.open,
\* send_feature_report and close are never called.
C5_FormatErrorBeforeIO ==
    (op = "save" /\ (FieldOutOfRange(conf) \/ ~packed.ok)) =>
        /\ pc = "done"
        /\ saveRet = <<FALSE, "Format error">>
        /\ log = <<>>
        /\ handle = "closed"

C5_Witness ==
    /\ Returned("save")
    /\ conf.qe1_sens = 128
    /\ saveRet = <<FALSE, "Format error">>


\* every transport call of the session so far succeeded
NoTransportFailure == \A i \in 1..Len(log) : log[i].res = "ok"

FieldSet == {ArcinConfigFields[i] : i \in 1..Len(ArcinConfigFields)}

\* a record with every ArcinConfig field, each of its packed type
CompleteRecord(r) ==
    /\ DOMAIN r = FieldSet
    /\ r.label.t = "bytes" /\ Len(r.label.v) = 12
    /\ r.keycodes.t = "bytes" /\ Len(r.keycodes.v) = 16
    /\ ~FieldOutOfRange([r EXCEPT !.label = Str(<<>>)])

\* C6: load_from_device returns either a complete decoded record or None;
\* any failure during open, report lookup/fetch or decode (a payload shorter
\* than 60 bytes included) yields None, never a partially filled record.
C6_LoadAllOrNothing ==
    Returned("load") =>
        /\ (exc \/ ~NoTransportFailure) => loadRet = None
        /\ (src # None /\ Len(src[1]) < CONFIG_REPORT_SIZE) => loadRet = None
        /\ loadRet # None =>
              /\ CompleteRecord(loadRet[1])
              /\ src # None
              /\ Len(src[1]) >= CONFIG_REPORT_SIZE
              /\ \E i \in 1..Len(reports) :
                    reports[i].id = CONFIG_REPORT_ID /\ reports[i].seg

\* a failure after a first config report had already been decoded
C6_Witness ==
    /\ Returned("load")
    /\ cur # None
    /\ exc
    /\ loadRet = None

\* C7: a successful save_to_device sends exactly two feature reports, each
\* once and in this order: the 64-byte report with bytes 0..3 =
\* [0xC0, 0x00, 0x3C, 0x00] and bytes 4..63 = the 60-byte encoded payload,
\* then [0xB0, 0x20]; nothing is resent or retried.
C7_WriteSequence ==
    /\ op = "save" => Cardinality(SendIdx) <= 2
    /\ (Returned("save") /\ saveRet = <<TRUE, "Success">>) =>
          /\ Len(log) = 4
          /\ log[1].call = "open"
          /\ log[2].call = "send"
          /\ Len(log[2].data) = 64
          /\ SubSeq(log[2].data, 1, 4) = <<192, 0, 60, 0>>
          /\ Len(packed.bytes) = 60
          /\ SubSeq(log[2].data, 5, 64) = packed.bytes
          /\ log[3].call = "send"
          /\ log[3].data = <<176, 32>>
          /\ log[4].call = "close"

\* the spec's example: label "TEST", no flags, debounce 2, default RGB
C7_Witness ==
    /\ Returned("save")
    /\ saveRet = <<TRUE, "Success">>
    /\ conf = DefaultConf
    /\ SubSeq(log[2].data, 5, 8) = LabelTest

\* C8 as stated: for every record within its declared ranges, parse_device
\* of the payload packed by save_to_device equals the original record in
\* every field, label and keycodes included.
C8_RoundTripExact ==
    (op = "save" /\ ValidConf(conf) /\ packed.ok) =>
        parse_device(packed.bytes) = Some(conf)

\* s right-padded with null bytes to n bytes
PadTo(s, n) == s \o Zeros(n - Len(s))

\* the record as the wire carries it: label and keycodes as fixed-width
\* null-padded bytes
WireForm(c) ==
    [c EXCEPT !.label = Bytes(PadTo(Utf8(c.label.v), 12)),
              !.keycodes = Bytes(PadTo(c.keycodes.v, 16))]

\* C8 amended: for every record within its declared ranges, parse_device of
\* the payload packed by save_to_device returns a record equal to the
\* original in every numeric field, whose label is the UTF-8 encoding of the
\* original label right-padded with null bytes to 12 bytes (a bytes object,
\* not a str) and whose keycodes are the original 13 keycodes followed by 3
\* zero bytes.
C8_RoundTripPadded ==
    (op = "save" /\ ValidConf(conf)) =>
        /\ packed.ok
        /\ parse_device(packed.bytes) = Some(WireForm(conf))

C8_Witness ==
    /\ Returned("save")
    /\ saveRet = <<TRUE, "Success">>
    /\ conf = BusyConf

\* C9: the encoded payload is always exactly 60 bytes: the field widths of
\* STRUCT_FMT_EX sum to 60 with a 4-byte flags field and no alignment
\* padding, and the reserved bytes (1 after the sensitivities, 2 after the
\* remap bytes, 3 at the end) are written as 0.
C9_PayloadLayout ==
    (op = "save" /\ packed.ok) =>
        /\ Len(packed.bytes) = 60
        /\ calcsize(STRUCT_FMT_EX) = 60
        /\ SubSeq(packed.bytes, 13, 16) = LeBytes(conf.flags, 4)
        /\ packed.bytes[17] = conf.qe1_sens % 256
        /\ packed.bytes[19] = 0
        /\ packed.bytes[20] = conf.debounce_ticks
        /\ packed.bytes[37] = conf.remap_start_sel
        /\ SubSeq(packed.bytes, 39, 40) = <<0, 0>>
        /\ packed.bytes[41] = conf.rgb_flags
        /\ packed.bytes[57] = conf.rgb_mode_options
        /\ SubSeq(packed.bytes, 58, 60) = <<0, 0, 0>>

C9_Witness ==
    /\ op = "save"
    /\ packed.ok
    /\ conf.flags = 16909060
    /\ SubSeq(packed.bytes, 13, 16) = <<4, 3, 2, 1>>

\* C10: parse_device rejects every input shorter than 60 bytes with an
\* error (no record is produced), and for inputs longer than 60 bytes it
\* decodes the first 60 bytes and ignores the rest, giving the same record
\* as for the 60-byte prefix alone.
C10_ParseLength ==
    (op = "load" /\ src # None) =>
        IF Len(src[1]) < 60
        THEN /\ exc
             /\ pc \in {"l_finally", "done"}
             /\ parse_device(src[1]) = None
        ELSE /\ cur # None
             /\ cur = parse_device(SubSeq(src[1], 1, 60))
             /\ CompleteRecord(cur[1])

C10_Witness ==
    /\ op = "load"
    /\ src # None
    /\ Len(src[1]) > 60
    /\ cur # None
    /\ cur[1].rgb_mode_options = 229


\* the label does not fit 12 bytes or the keycodes do not fit 16
Oversize(c) ==
    /\ c.label.t = "str"
    /\ c.keycodes.t = "bytes"
    /\ \/ Len(Utf8(c.label.v)) > 12
       \/ Len(c.keycodes.v) > 16

Bit(x, k) == (x \div 2^k) % 2

\* C12: for every flags value __populate_from_conf__ selects the turntable
\* mode "both" when bits 3 and 6 are set, else "digital only" when bit 3 is
\* set, else "analog only"; the input mode "keyboard only" when bits 7 and 8
\* are set, else "both" when bit 7 is set, else "controller only"; the LED
\* mode "reactive" when bit 11 is set, else "HID" when bit 12 is set, else
\* the default; and each selection is the same for every flags value that
\* agrees on its own two bits.
C12_EnumDecode ==
    (pfn = "flags" /\ pout # <<>>) =>
        LET c == pout[1]
        IN /\ c.qe1_tt = (IF Bit(pin, 3) = 1 /\ Bit(pin, 6) = 1 THEN 2
                          ELSE IF Bit(pin, 3) = 1 THEN 1 ELSE 0)
           /\ c.input_mode = (IF Bit(pin, 7) = 1 /\ Bit(pin, 8) = 1 THEN 1
                              ELSE IF Bit(pin, 7) = 1 THEN 2 ELSE 0)
           /\ c.led_mode = (IF Bit(pin, 11) = 1 THEN 1
                            ELSE IF Bit(pin, 12) = 1 THEN 2 ELSE 0)
           /\ \A g \in FlagInputs :
                LET d == PopulateFlags(DefaultCtl, g)
                IN /\ (Bit(g, 3) = Bit(pin, 3) /\ Bit(g, 6) = Bit(pin, 6))
                        => d.qe1_tt = c.qe1_tt
                   /\ (Bit(g, 7) = Bit(pin, 7) /\ Bit(g, 8) = Bit(pin, 8))
                        => d.input_mode = c.input_mode
                   /\ (Bit(g, 11) = Bit(pin, 11) /\ Bit(g, 12) = Bit(pin, 12))
                        => d.led_mode = c.led_mode

\* flags with bits 3 and 6, 7 and 8, 11 and 12 and the retired bit 2 decoded
C12_Witness ==
    /\ pfn = "flags"
    /\ pout # <<>>
    /\ \A k \in {2, 3, 6, 7, 8, 11, 12} : Bit(pin, k) = 1
    /\ pout[1].qe1_tt = 2
    /\ pout[1].input_mode = 1
    /\ pout[1].led_mode = 1

\* the flag bits the program assigns
AssignedBits == {0, 1, 3, 4, 5, 6, 7, 8, 9, 10, 11, 12, 13}

OnlyAssignedBits(f) == \A k \in 0..30 : Bit(f, k) = 1 => k \in AssignedBits

\* the flags field of a config feature report
SentFlags(data) == LeValue(SubSeq(data, 17, 20))

\* C13: bit 2 is never set in a record written to the device: whatever was
\* loaded and edited, the flags of every record built by
\* __extract_conf_from_gui__, handed to save_to_device and sent, hold only
\* bits from {0,1,3,...,13}.
C13_RetiredBitNeverWritten ==
    /\ \A i \in 1..Len(timers) :
          timers[i].fn = "on_save_deferred"
              => OnlyAssignedBits(timers[i].conf.flags)
    /\ caller = "on_save_deferred" =>
          /\ OnlyAssignedBits(conf.flags)
          /\ \A i \in 1..Len(log) :
                IsConfigSend(i) => OnlyAssignedBits(SentFlags(log[i].data))

\* the record with bits 2, 8, 9, 17 and 24 was loaded and saved again: bit 9
\* alone is written
C13_Witness ==
    /\ caller = "on_save_deferred"
    /\ ctl.title = AsciiLabel(12)
    /\ ctl.mode_switch
    /\ Bit(WornConf.flags, 2) = 1
    /\ \E i \in 1..Len(log) :
          IsConfigSend(i) /\ SentFlags(log[i].data) = Shl(1, 9)

\* the step in which on_load_deferred runs to its end
LoadDeferredEnds ==
    /\ timers # <<>>
    /\ Head(timers).fn = "on_load_deferred"
    /\ timers' = Tail(timers)
    /\ loading
    /\ ~loading'

\* the record a Save click would build in the next state
NextExtract == ExtractConf(ctl', keycodes', remap', rgb_config')

\* C14 as stated: once a record has been loaded each of the four effector
\* ids held by the application is in 1..4, and the record a save would then
\* build packs no zero nibble.
C14_RemapIdsInRange ==
    [][LoadDeferredEnds =>
        /\ \A i \in 1..4 : remap'[i] \in 1..4
        /\ \A i \in 1..4 :
              RemapNibbles(NextExtract.remap_start_sel,
                           NextExtract.remap_b8_b9)[i] # 0]_vars

\* C15: a remap byte is (high << 4) | low, that is 16 * high + low;
\* splitting the byte returns the two ids for all ids in 1..4; (1,2) packs to
\* 0x12; and the bytes 0x00 decode, through the nibble split and the default
\* substitution of the remapper window, to (1,2) for start/select and (3,4)
\* for b8/b9.
C15_RemapPacking ==
    pfn = "remap" =>
        /\ Len(pout) >= 1 =>
              /\ pout[1] = <<16 * pin[1] + pin[2], 16 * pin[3] + pin[4]>>
              /\ (pin[1] = 1 /\ pin[2] = 2) => pout[1][1] = 18
        /\ Len(pout) >= 2 =>
              /\ (\A i \in 1..4 : pin[i] \in 1..4) => pout[2] = pin
              /\ pout[1][1] = 18 => (pout[2][1] = 1 /\ pout[2][2] = 2)
        /\ Len(pout) >= 3 =>
              /\ (\A i \in 1..4 : pin[i] \in 1..4) => pout[3] = pin
              /\ pout[1][1] = 0 => (pout[3][1] = 1 /\ pout[3][2] = 2)
              /\ pout[1][2] = 0 => (pout[3][3] = 3 /\ pout[3][4] = 4)

\* both bytes 0x00 decoded to the default mapping
C15_Witness ==
    /\ pfn = "remap"
    /\ Len(pout) = 3
    /\ pout[1] = <<0, 0>>
    /\ pout[3] = <<1, 2, 3, 4>>

\* the step in which on_load_deferred shows a record whose sensitivity is no
\* value of SENS_OPTIONS
LoadsUnmatchedSens ==
    /\ timers # <<>>
    /\ Head(timers).fn = "on_load_deferred"
    /\ timers' = Tail(timers)
    /\ \A i \in 1..Len(SENS_OPTIONS) :
          SENS_OPTIONS[i] # Head(timers).conf.qe1_sens

\* C16 as stated: decoding a sensitivity that matches no entry selects the
\* "1:4" item (item 3) and a following save writes -4; "1:4" encodes to -4.
C16_UnmatchedSensIsOneToFour ==
    [][/\ LoadsUnmatchedSens =>
            /\ ctl'.qe1_sens = 3
            /\ NextExtract.qe1_sens = -4
       /\ ctl.qe1_sens = 3 => ExtractSens(ctl) = -4]_vars

C18_SessionsNeverOverlap ==
    [][/\ Len(timers) <= 1
       /\ timers # <<>> => (loading /\ ~buttons /\ pc = "idle")
       /\ buttons => (selected /\ ~loading)
       /\ handle = "open" => (caller # "none" /\ timers = <<>>)
       /\ (pc = "idle" /\ pc' # "idle") =>
             /\ timers' = <<>>
             /\ handle = "closed"
             /\ caller' \in {"on_load", "on_save_deferred"}
       /\ (timers' # timers /\ timers' # <<>>) => ~buttons']_vars

\* the session of a deferred save with the handle open
C18_Witness ==
    /\ caller = "on_save_deferred"
    /\ handle = "open"
    /\ pc = "s_send_restart"
    /\ timers = <<>>

\* the keycodes of the records waiting to be saved
HandedKeycodes ==
    {timers[i].conf.keycodes.v :
        i \in {j \in 1..Len(timers) : timers[j].fn = "on_save_deferred"}}

\* C19 as stated: the keycodes held by the application and handed to the
\* encoder always have exactly 13 entries.
C19_KeycodesAlways13 ==
    /\ keycodes # None => Len(keycodes[1]) = ARCIN_CONFIG_VALID_KEYCODES
    /\ \A k \in HandedKeycodes : Len(k) = ARCIN_CONFIG_VALID_KEYCODES

\* C19 amended: the keycodes held by the application and handed to the
\* encoder have 13 or 16 entries: 16 (the whole keycodes field, reserved
\* bytes included) once a load has run to its end, 13 once a keybinds window
\* has been closed, and 13 zeros are handed over while nothing is held.
C19_KeycodesLength ==
    [][/\ keycodes # None => Len(keycodes[1]) \in {13, 16}
       /\ \A k \in HandedKeycodes : Len(k) \in {13, 16}
       /\ LoadDeferredEnds =>
             /\ Len(keycodes'[1]) = 16
             /\ Len(NextExtract.keycodes.v) = 16
       /\ (keybinds_frame # None /\ keybinds_frame' = None) =>
             /\ Len(keycodes'[1]) = 13
             /\ Len(NextExtract.keycodes.v) = 13
       /\ keycodes = None =>
             ExtractConf(ctl, keycodes, remap, rgb_config).keycodes.v
                = Zeros(13)]_vars

\* a record with 16 keycodes waits to be saved
C19_Witness ==
    /\ keycodes # None
    /\ Len(keycodes[1]) = 16
    /\ \E k \in HandedKeycodes : Len(k) = 16

\* bytes 13..15 of the keycodes field of the payload packed for record c
ReservedKeycodes(c) == SubSeq(PackConf(c).bytes, 34, 36)

\* C20 as stated: the reserved bytes 13..15 of the keycodes field are written
\* as they were read: the record built after a load carries the bytes of
\* the loaded record, and closing the keybinds window leaves them as they
\* are; they are zero when only 13 keycodes are held.
C20_ReservedKeycodesRoundTrip ==
    [][/\ LoadDeferredEnds =>
             ReservedKeycodes(NextExtract)
                = SubSeq(Head(timers).conf.keycodes.v, 14, 16)
       /\ (keybinds_frame # None /\ keybinds_frame' = None
           /\ keycodes # None) =>
             ReservedKeycodes(NextExtract)
                = ReservedKeycodes(ExtractConf(ctl, keycodes, remap,
                                               rgb_config))
       /\ (keycodes # None /\ Len(keycodes[1]) = 13) =>
             ReservedKeycodes(ExtractConf(ctl, keycodes, remap, rgb_config))
                = <<0, 0, 0>>]_vars

\* C21: every record __extract_conf_from_gui__ builds has debounce_ticks in
\* 2..10: the value of the spin control when that is in 2..10, and 2 (not
\* the nearest bound) for any other value; the record already holds the
\* replaced value when it is packed, and the packed byte is that value.
C21_DebounceFallsBackToTwo ==
    pfn = "debounce" /\ Len(pout) >= 1 =>
        /\ pout[1].debounce_ticks \in 2..10
        /\ pout[1].debounce_ticks = (IF pin \in 2..10 THEN pin ELSE 2)
        /\ Len(pout) >= 2 =>
              /\ pout[2].ok
              /\ pout[2].bytes[20] = pout[1].debounce_ticks

C21_Witness ==
    /\ pfn = "debounce"
    /\ pin = 11
    /\ Len(pout) = 2
    /\ pout[1].debounce_ticks = 2
    /\ pout[2].bytes[20] = 2

\* C22: the list DEFAULT_EFFECTOR_MAPPING holds 1, 2, 3, 4 in every reachable
\* state, whatever is loaded, opened, closed and saved: MainWindowFrame.remap
\* is never that list, so the items stored in self.remap (by
\* __populate_from_conf__ and by populate_ui_from_remap) go to a list of the
\* application's own.
C22_DefaultMappingUnchanged == default_mapping = <<1, 2, 3, 4>>

\* a load has stored 4, 3, 5, 0 in self.remap and the remapper window, opened
\* after it, has stored the default 4 over the 0
C22_Witness ==
    /\ remapper_frame # None
    /\ remap = <<4, 3, 5, 4>>
    /\ default_mapping = <<1, 2, 3, 4>>

\* C23: the fade-out duration is the 2-bit number whose bit 0 is RGB flag
\* bit 3 (fast) and whose bit 1 is RGB flag bit 4 (slow).  populate_ui selects
\* item 0..3 with that number; extract_from_ui sets exactly bits 3 and 4 of
\* the selection's number; populate after extract gives the selection back
\* and extract after populate gives bits 3 and 4 back.  The flag bits 0..2
\* go to and come from the three check boxes, whatever the fade-out is.
C23_FadeoutTwoBitMagnitude ==
    pfn = "rgb_flags" /\ Len(pout) >= 1 =>
        /\ pout[1].fadeout = Bit(pin, 3) + 2 * Bit(pin, 4)
        /\ pout[1].hid_rgb = (Bit(pin, 0) = 1)
        /\ pout[1].qe1_react = (Bit(pin, 1) = 1)
        /\ pout[1].flip_direction = (Bit(pin, 2) = 1)
        /\ Len(pout) >= 2 =>
              /\ \A k \in 0..4 : Bit(pout[2], k) = Bit(pin, k)
              /\ pout[2] = pin % 32
              /\ RgbPopulateFlags(pout[2]) = pout[1]
              /\ \A v \in 0..3 :
                    LET f == RgbExtractFlags([pout[1] EXCEPT !.fadeout = v])
                    IN /\ FadeoutSelection(f) = v
                       /\ f \div 8 = v
                       /\ f % 8 = pin % 8

\* slow only, with two of the check boxes: item 2, and 21 comes back
C23_Witness ==
    /\ pfn = "rgb_flags"
    /\ pin = 21
    /\ Len(pout) = 2
    /\ pout[1].fadeout = 2
    /\ pout[2] = 21

\* the idle speed label has been computed for a unit
IdleSpeedShown == pfn = "idle_speed" /\ Len(pout) = 1 /\ pin[2] # ""

\* C24 as stated: the number shown is a truncated one, either the quotient
\* raw/2 or raw*raw/255 with the digits after the second decimal dropped,
\* or the whole number an integer division gives.
C24_DisplayTruncates ==
    IdleSpeedShown =>
        LET x == IdleSpeedConverted(pin[1], pin[2])
        IN \/ pout[1].hundredths = (100 * x[1]) \div x[2]
           \/ pout[1].hundredths = 100 * (x[1] \div x[2])

\* C24, amended: for every raw value 0..240 the number shown is the exact
\* quotient (raw/2 for RPM, raw*raw/255 for BPM) rounded to the nearest
\* hundredth, nothing truncated: RPM shows raw/2 exactly (.00 or .50), BPM
\* is within half a hundredth of raw*raw/255; raw 100 shows 50.00 RPM and
\* 39.22 BPM.
C24_DisplayRounds ==
    IdleSpeedShown =>
        LET raw == pin[1]
            h == pout[1].hundredths
        IN /\ pout[1].unit = pin[2]
           /\ pin[2] = "RPM" => h = 50 * raw
           /\ pin[2] = "BPM" =>
                 /\ 2 * (100 * raw * raw - 255 * h) < 255
                 /\ 2 * (255 * h - 100 * raw * raw) < 255
           /\ raw = 100 => h = (IF pin[2] = "RPM" THEN 5000 ELSE 3922)

\* raw 100 in BPM: 39.2156... is shown as 39.22
C24_Witness ==
    /\ IdleSpeedShown
    /\ pin = <<100, "BPM">>
    /\ pout[1].hundredths = 3922

\* what the four choices of a remapper window opened for the list r show
RemapShownFor(r) ==
    LET d == ZeroToDefault(r, default_mapping)
    IN [k \in 1..4 |-> IF ValidRemapSelection(d[k] - 1) THEN d[k] - 1
                       ELSE NewRemapControls[k]]

\* C25: once a load has completed and while the user has edited nothing, a
\* sub-window that is closed (by hand, by Save or by Load) leaves in
\* self.keycodes and self.remap what a window showing the loaded values
\* gives, whenever the window was opened: a window opened between the Load
\* click and on_load_deferred does not bring back the values it was opened
\* with.
C25_CloseKeepsLoadedValues ==
    [][ (edits = 0 /\ rgb_config # None) =>
          /\ (keybinds_frame # None /\ keybinds_frame' = None) =>
                keycodes' = Some(extract_keycodes_from_ui(
                                    KeybindsSelections(keycodes[1])))
          /\ (remapper_frame # None /\ remapper_frame' = None) =>
                remap' = extract_remap_from_ui(RemapShownFor(remap)) ]_vars

\* C26: whenever loading is True (set by a Load or Save click with a device
\* selected) it is False again later, with the Save and Load buttons enabled
\* as the device selection allows, however the device operation ends.
C26_LoadingEventuallyCleared ==
    loading ~> (~loading /\ buttons = EvaluateButtons(selected, FALSE))

\* C27: the flags __extract_conf_from_gui__ builds are canonical for every
\* setting of the controls: bit 6 (analog force) only with bit 3 (digital),
\* bit 8 (joystick disable) only with bit 7 (keyboard), and never both
\* bit 11 (LED reactive) and bit 12 (LED HID).
C27_ExtractedFlagsCanonical ==
    pfn = "controls" /\ Len(pout) >= 1 =>
        /\ Bit(pout[1], 6) = 1 => Bit(pout[1], 3) = 1
        /\ Bit(pout[1], 8) = 1 => Bit(pout[1], 7) = 1
        /\ ~(Bit(pout[1], 11) = 1 /\ Bit(pout[1], 12) = 1)

\* both turntable modes, keyboard only, HID-controlled LED: bits 3, 6, 7, 8
\* and 12
C27_Witness ==
    /\ pfn = "controls"
    /\ pin.qe1_tt = 2 /\ pin.input_mode = 1 /\ pin.led_mode = 2
    /\ Len(pout) >= 1
    /\ \A k \in {3, 6, 7, 8, 12} : Bit(pout[1], k) = 1
    /\ Bit(pout[1], 11) = 0

\* C28: for every setting of the check boxes, the poll rate and the three
\* choices (items 0, 1, 2), populating the controls from the flags
\* __extract_conf_from_gui__ built restores every check box, the poll rate
\* and the three selections, and extracting again gives the same flags.
C28_EnumRoundTrip ==
    pfn = "controls" =>
        /\ Len(pout) >= 2 => pout[2] = pin
        /\ Len(pout) >= 3 => pout[3] = pout[1]

\* the round trip of a window with all three choices on their last item
C28_Witness ==
    /\ pfn = "controls"
    /\ pin.qe1_tt = 2 /\ pin.input_mode = 2 /\ pin.led_mode = 2
    /\ pin.multitap /\ pin.poll_rate = 1
    /\ Len(pout) = 3
    /\ pout[2].qe1_tt = 2 /\ pout[2].input_mode = 2 /\ pout[2].led_mode = 2
    /\ pout[3] = pout[1]
====
